---- MODULE Spec2Model ----
(***************************************************************************)
(* rustberry: the Mifare tag byte stream (TagWriter, TagReader), the       *)
(* length-prefixed string codec built on it (write_string, read_string),   *)
(* the RFID watcher loop (UserRequestTransmitterRfid::run) with the        *)
(* channel to its consumer (UserRequests), and the locking of the reader   *)
(* chip by the watcher and by the handler of GET rfid-tag.                 *)
(*                                                                         *)
(* Bytes are naturals in 0..255, a block is a sequence of 16 bytes, the    *)
(* tag memory maps a physical block address to a block.  Rust's 0-based    *)
(* indices are kept in the records; sequences are 1-based.                 *)
(***************************************************************************)
EXTENDS Integers, Sequences, FiniteSets, TLC

VARIABLES
    mem,        \* tag memory: physical block address -> block of 16 bytes
    good,       \* block transactions the tag still answers (-1: all of them)
    writer,     \* the TagWriter's fields
    reader,     \* the TagReader's fields
    hw,         \* block and session operations of the most recent call
    call,       \* the most recent call, with the cursor it started from
    res,        \* how the most recent call ended: "Ok" or "Panic"
    out,        \* the bytes (or string) the most recent call returned
    ncalls,     \* calls made on the current reader/writer
    fed,        \* bytes handed to write since the last explicit flush
    commits,    \* blocks committed by the current writer
    str,        \* the string handed to write_string
    last_uid,   \* watcher: identifier of the tag-present state, or NoUid
    tx,         \* watcher: events sent on the channel, in order
    wst,        \* watcher thread: "running", "panicked" or "aborted"
    poll,       \* watcher: what the last poll observed and what it did
    npolls,     \* watcher: polls made so far
    scen,       \* polls so far that follow the edge-triggering scenario
    streak,     \* the current run of polls that found one identifier
    queue,      \* channel: events sent and not yet received
    rcvd,       \* consumer: events returned by UserRequests::next, in order
    cons,       \* consumer: "iterating", or "ended" once next returned None
    pc,         \* threads on the reader chip: where each one is
    mutex,      \* per RfidController: the thread holding its Mutex, or Free
    bus,        \* the last operation on the reader chip and who issued it
    todo,       \* per thread: block transactions its read_string still needs
    lk,         \* one thread, step by step: where it is, what it holds
    stdin,      \* stdin transmitter: last, the lines read, the items it sent
    meta,       \* MetaApp::run: current_mode, abortable, the jukebox tasks
    blinker     \* Blinker: abort_handle, the blinking tasks, the callers

chanVars == <<queue, rcvd, cons>>
threadVars == <<pc, mutex, bus, todo, lk, stdin, meta, blinker>>

vars == <<mem, good, writer, reader, hw, call, res, out, ncalls, fed,
          commits, str, last_uid, tx, wst, poll, npolls, scen, streak,
          chanVars, threadVars>>

watcherVars == <<last_uid, tx, wst, poll, npolls, scen, streak, chanVars,
                 threadVars>>

----------------------------------------------------------------------------
(* Program constants                                                       *)

DATA_BLOCKS == <<8, 9, 10, 12, 13, 14, 16, 17, 18>>
N_BLOCKS == 9
N_BLOCK_SIZE == 16
ScratchSize == 1024

(* Bounds of the model                                                     *)
MaxCalls == 3
MaxGood == 1
MaxSmallLen == 17
MaxStrLen == 143
MaxReadLen == 17
MaxPolls == 6

Min(a, b) == IF a <= b THEN a ELSE b
\* F applied to the value of v, v being evaluated once.
Let(v, F(_)) == CHOOSE r \in {F(x) : x \in {v}} : TRUE
Zeros(n) == [i \in 1..n |-> 0]
Take(s, n) == SubSeq(s, 1, n)
Skip(s, n) == SubSeq(s, n + 1, Len(s))

\* Physical block addresses of the tag's first five sectors.
Addrs == 0..19
BlankMem == [a \in Addrs |-> Zeros(N_BLOCK_SIZE)]

\* usize-indexing of DATA_BLOCKS: an index >= 9 panics (bounds check).
InTable(k) == k < Len(DATA_BLOCKS)
\* Blocks addressed one after the other from the first entry on.
BlockAddrLinear(k) == DATA_BLOCKS[1] + k
BlockAddr(k) == DATA_BLOCKS[k + 1]

HwOp(o, a) == [op |-> o, addr |-> a]

----------------------------------------------------------------------------
(* TagWriter.  A writer world s is                                         *)
(*   [w: the TagWriter, mem, good, hw, commits, res]                       *)
(* and every operation maps a world to a world; res = "Panic" is sticky.   *)

new_writer ==
    [current_block |-> 0,
     buffered_data |-> Zeros(N_BLOCK_SIZE),
     current_pos_in_buffered_data |-> 0]

\* authenticate(..).expect(..) followed by mifare_write(..).expect(..) at
\* DATA_BLOCKS[current_block]; the caller advances current_block.
CommitBlock(s_, block_) ==
    Let(<<s_, block_>>, LAMBDA p :
        LET s == p[1]
            block == p[2]
        IN  IF ~InTable(s.w.current_block)
            THEN [s EXCEPT !.res = "Panic"]
            ELSE LET a == BlockAddr(s.w.current_block) IN
                 IF s.good = 0
                 THEN [s EXCEPT !.res = "Panic",
                                !.hw = Append(@, HwOp("auth", a))]
                 ELSE [s EXCEPT !.mem[a] = block,
                                !.good = IF @ > 0 THEN @ - 1 ELSE @,
                                !.commits = @ + 1,
                                !.hw = @ \o <<HwOp("auth", a),
                                              HwOp("write", a)>>])

\* The buffer flush commits: the staged bytes, zero-padded to a block.
Padded(w) ==
    Take(w.buffered_data, w.current_pos_in_buffered_data)
    \o Zeros(N_BLOCK_SIZE - w.current_pos_in_buffered_data)

FlushedSameBlock(c) ==
    IF c.res = "Panic" THEN c
    ELSE [c EXCEPT !.w.current_pos_in_buffered_data = 0,
                   !.w.buffered_data = Zeros(N_BLOCK_SIZE)]

Flushed(c) ==
    IF c.res = "Panic" THEN c
    ELSE [c EXCEPT !.w.current_pos_in_buffered_data = 0,
                   !.w.current_block = @ + 1,
                   !.w.buffered_data = Zeros(N_BLOCK_SIZE)]

flushAlways(s_) ==
    Let(s_, LAMBDA s :
        IF s.res = "Panic" THEN s
        ELSE Let(CommitBlock(s, Padded(s.w)), LAMBDA c : Flushed(c)))

flush(s_) ==
    Let(s_, LAMBDA s :
        IF s.res = "Panic" THEN s
        ELSE IF s.w.current_pos_in_buffered_data > 0
        THEN Let(CommitBlock(s, Padded(s.w)), LAMBDA c : Flushed(c))
        ELSE s)

\* One element of buf[n_to_skip..].chunks(N_BLOCK_SIZE) in for_each.
write_chunkCommitsPartial(s_, block_) ==
    Let(CommitBlock(s_, block_ \o Zeros(N_BLOCK_SIZE - Len(block_))),
        LAMBDA c : IF c.res = "Panic" THEN c
                   ELSE [c EXCEPT !.w.current_block = @ + 1])

write_chunk(s_, block_) ==
    Let(<<s_, block_>>, LAMBDA p :
        LET s == p[1]
            block == p[2]
        IN  IF Len(block) = N_BLOCK_SIZE
            THEN Let(CommitBlock(s, block), LAMBDA c :
                     IF c.res = "Panic" THEN c
                     ELSE [c EXCEPT !.w.current_block = @ + 1])
            ELSE [s EXCEPT
                    !.w.buffered_data = block \o Skip(@, Len(block)),
                    !.w.current_pos_in_buffered_data =
                        (@ + Len(block)) % 256])

RECURSIVE write_chunks(_, _)
write_chunks(s_, rest_) ==
    Let(<<s_, rest_>>, LAMBDA p :
        LET s == p[1]
            rest == p[2]
        IN  IF s.res = "Panic" \/ rest = <<>> THEN s
            ELSE LET k == Min(Len(rest), N_BLOCK_SIZE) IN
                 write_chunks(write_chunk(s, Take(rest, k)), Skip(rest, k)))

\* A write that, once the staged block is complete and flushed, forgets the
\* rest of its input.
writeDropsRest(s_, buf_) ==
    Let(<<s_, buf_>>, LAMBDA p :
        LET s == p[1]
            buf == p[2]
        IN  IF s.res = "Panic" THEN s
            ELSE IF s.w.current_pos_in_buffered_data > 0
            THEN LET pos == s.w.current_pos_in_buffered_data
                     k == Min(Len(buf), N_BLOCK_SIZE - pos)
                     t == [s EXCEPT
                             !.w.buffered_data =
                                 Take(@, pos) \o Take(buf, k)
                                 \o Skip(@, pos + k),
                             !.w.current_pos_in_buffered_data = @ + k]
                 IN  IF t.w.current_pos_in_buffered_data = N_BLOCK_SIZE
                     THEN flush(t)
                     ELSE t
            ELSE write_chunks(s, buf))

write(s_, buf_) ==
    Let(<<s_, buf_>>, LAMBDA p :
        LET s == p[1]
            buf == p[2]
        IN  IF s.res = "Panic" THEN s
            ELSE IF s.w.current_pos_in_buffered_data > 0
            THEN LET pos == s.w.current_pos_in_buffered_data
                     n_space_left_in_buffered_data == N_BLOCK_SIZE - pos
                     to_copy_into_buffered_data ==
                         Min(Len(buf), n_space_left_in_buffered_data)
                     t == [s EXCEPT
                             !.w.buffered_data =
                                 Take(@, pos)
                                 \o Take(buf, to_copy_into_buffered_data)
                                 \o Skip(@, pos + to_copy_into_buffered_data),
                             !.w.current_pos_in_buffered_data =
                                 @ + to_copy_into_buffered_data]
                 IN  IF t.w.current_pos_in_buffered_data = N_BLOCK_SIZE
                     THEN write_chunks(flush(t),
                                       Skip(buf, to_copy_into_buffered_data))
                     ELSE t
            ELSE write_chunks(s, buf))

----------------------------------------------------------------------------
(* TagReader.  A reader world r is                                         *)
(*   [rd: the TagReader, mem, good, hw, res, data]                         *)
(* where data holds the bytes the last read copied into the caller's buf.  *)

new_reader == [current_block |-> 0, current_pos_in_block |-> 0]

\* A fetch that wraps the offset at the end of a block without moving on to
\* the next block.
FetchStaysInBlock(r, len) ==
    IF ~InTable(r.rd.current_block)
    THEN [r EXCEPT !.res = "Panic", !.data = <<>>]
    ELSE LET a == BlockAddr(r.rd.current_block) IN
         IF r.good = 0
         THEN [r EXCEPT !.res = "Panic", !.data = <<>>,
                        !.hw = Append(@, HwOp("auth", a))]
         ELSE LET pos == r.rd.current_pos_in_block
                  bytes_to_copy == Min(len, N_BLOCK_SIZE - pos)
              IN  [r EXCEPT
                     !.good = IF @ > 0 THEN @ - 1 ELSE @,
                     !.hw = @ \o <<HwOp("auth", a), HwOp("read", a)>>,
                     !.data = SubSeq(r.mem[a], pos + 1, pos + bytes_to_copy),
                     !.rd.current_pos_in_block =
                         (pos + bytes_to_copy) % N_BLOCK_SIZE]

\* Past the end check of read: authenticate, mifare_read, copy, advance.
Fetch(r, len) ==
    IF ~InTable(r.rd.current_block)
    THEN [r EXCEPT !.res = "Panic", !.data = <<>>]
    ELSE LET a == BlockAddr(r.rd.current_block) IN
         IF r.good = 0
         THEN [r EXCEPT !.res = "Panic", !.data = <<>>,
                        !.hw = Append(@, HwOp("auth", a))]
         ELSE LET pos == r.rd.current_pos_in_block
                  bytes_to_copy == Min(len, N_BLOCK_SIZE - pos)
                  newpos == (pos + bytes_to_copy) % N_BLOCK_SIZE
              IN  [r EXCEPT
                     !.good = IF @ > 0 THEN @ - 1 ELSE @,
                     !.hw = @ \o <<HwOp("auth", a), HwOp("read", a)>>,
                     !.data = SubSeq(r.mem[a], pos + 1, pos + bytes_to_copy),
                     !.rd.current_pos_in_block = newpos,
                     !.rd.current_block = IF newpos = 0 THEN @ + 1 ELSE @]

readNoEndCheck(r_, len_) ==
    Let(<<r_, len_>>, LAMBDA p :
        IF p[1].res = "Panic" THEN p[1] ELSE Fetch(p[1], p[2]))

read(r_, len_) ==
    Let(<<r_, len_>>, LAMBDA p :
        LET r == p[1]
            len == p[2]
        IN  IF r.res = "Panic" THEN r
            ELSE IF r.rd.current_block = N_BLOCKS
            THEN [r EXCEPT !.data = <<>>]
            ELSE Fetch(r, len))

\* std::io::Read::read_exact over read: [r, ok, bytes]; a read of 0 bytes
\* before the buffer is full is UnexpectedEof.
RECURSIVE read_exact(_, _, _)
read_exact(r_, n_, acc_) ==
    Let(<<r_, n_, acc_>>, LAMBDA p :
        LET r == p[1]
            n == p[2]
            acc == p[3]
        IN  IF r.res = "Panic" THEN [r |-> r, ok |-> FALSE, bytes |-> acc]
            ELSE IF n = 0 THEN [r |-> r, ok |-> TRUE, bytes |-> acc]
            ELSE Let(read(r, n), LAMBDA q :
                     IF q.res = "Panic" \/ Len(q.data) = 0
                     THEN [r |-> q, ok |-> FALSE, bytes |-> acc]
                     ELSE read_exact(q, n - Len(q.data), acc \o q.data)))

----------------------------------------------------------------------------
(* The MessagePack string framing of rmp::encode::write_str and            *)
(* rmp::decode::read_str, and the UTF-8 check of str::from_utf8.           *)

IsCont(b) == b >= 128 /\ b <= 191

\* Length of the well-formed UTF-8 scalar starting at s[i], or 0.
Utf8Step(s, i) ==
    LET b == s[i]
        has(k) == i + k <= Len(s)
        c(k) == s[i + k]
    IN  IF b <= 127 THEN 1
        ELSE IF b >= 194 /\ b <= 223
        THEN IF has(1) /\ IsCont(c(1)) THEN 2 ELSE 0
        ELSE IF b >= 224 /\ b <= 239
        THEN IF has(2)
                /\ c(1) >= (IF b = 224 THEN 160 ELSE 128)
                /\ c(1) <= (IF b = 237 THEN 159 ELSE 191)
                /\ IsCont(c(2)) THEN 3 ELSE 0
        ELSE IF b >= 240 /\ b <= 244
        THEN IF has(3)
                /\ c(1) >= (IF b = 240 THEN 144 ELSE 128)
                /\ c(1) <= (IF b = 244 THEN 143 ELSE 191)
                /\ IsCont(c(2)) /\ IsCont(c(3)) THEN 4 ELSE 0
        ELSE 0

\* Byte i of s is in place: a byte that is no continuation byte starts a
\* well-formed scalar, and a continuation byte belongs to the scalar that
\* the nearest byte before it that is no continuation byte starts.
Utf8At(s, i) ==
    IF ~IsCont(s[i]) THEN Utf8Step(s, i) > 0
    ELSE \E j \in 1..(i - 1) :
            /\ ~IsCont(s[j])
            /\ \A k \in (j + 1)..i : IsCont(s[k])
            /\ i - j < Utf8Step(s, j)

\* str::from_utf8 accepts s: the scalars it walks through cover s exactly.
from_utf8(s) == \A i \in 1..Len(s) : Utf8At(s, i)

\* rmp::encode::write_str_len: the writes it issues, one sequence per call
\* of write_all.
StrHeader(n) ==
    IF n < 32 THEN << <<160 + n>> >>
    ELSE IF n < 256 THEN << <<217>>, <<n>> >>
    ELSE IF n < 65536 THEN << <<218>>, <<n \div 256, n % 256>> >>
    ELSE << <<219>>, <<n \div 16777216, (n \div 65536) % 256,
                       (n \div 256) % 256, n % 256>> >>

RECURSIVE Concat(_)
Concat(ss) == IF ss = <<>> THEN <<>> ELSE Head(ss) \o Concat(Tail(ss))

\* The framed encoding of s: length header followed by the raw bytes.
Framed(s) == Concat(StrHeader(Len(s))) \o s

\* Write::write_all: TagWriter::write always reports the whole buffer as
\* written, so each non-empty buffer is one call of write.
write_all(s_, buf) ==
    Let(s_, LAMBDA s : IF buf = <<>> THEN s ELSE write(s, buf))

RECURSIVE write_alls(_, _)
write_alls(s_, bufs) ==
    Let(s_, LAMBDA s :
        IF bufs = <<>> THEN s
        ELSE write_alls(write_all(s, Head(bufs)), Tail(bufs)))

write_str(s, data) == write_all(write_alls(s, StrHeader(Len(data))), data)

write_stringNoFlush(s, data) == write_str(s, data)

\* write_str(..).unwrap(); self.flush(); Ok(())
write_string(s, data) == flush(write_str(s, data))

\* Big-endian value of a byte sequence.
RECURSIVE BE(_)
BE(bs) == IF bs = <<>> THEN 0 ELSE BE(Take(bs, Len(bs) - 1)) * 256 + bs[Len(bs)]

\* rmp::decode::read_str_len: [r, ok, len].
StrLenWidth(b) ==
    IF b = 217 THEN 1 ELSE IF b = 218 THEN 2 ELSE IF b = 219 THEN 4 ELSE 0

read_str_len(r_) ==
    Let(read_exact(r_, 1, <<>>), LAMBDA m :
        IF ~m.ok THEN [r |-> m.r, ok |-> FALSE, len |-> 0]
        ELSE LET b == m.bytes[1] IN
             IF b >= 160 /\ b <= 191
             THEN [r |-> m.r, ok |-> TRUE, len |-> b - 160]
             ELSE IF StrLenWidth(b) = 0
             THEN [r |-> m.r, ok |-> FALSE, len |-> 0]
             ELSE Let(read_exact(m.r, StrLenWidth(b), <<>>), LAMBDA d :
                      [r |-> d.r, ok |-> d.ok,
                       len |-> IF d.ok THEN BE(d.bytes) ELSE 0]))

\* A decoder that takes everything up to the last byte that is not zero.
read_strToLastByte(r_) ==
    Let(read_str_len(r_), LAMBDA h :
        IF ~h.ok THEN [r |-> h.r, ok |-> FALSE, s |-> <<>>]
        ELSE LET left == (N_BLOCKS - h.r.rd.current_block) * N_BLOCK_SIZE
                         - h.r.rd.current_pos_in_block
             IN  Let(read_exact(h.r, left, <<>>), LAMBDA d :
                     LET used == {i \in 1..Len(d.bytes) : d.bytes[i] # 0}
                         n == IF used = {} THEN 0
                              ELSE CHOOSE i \in used : \A j \in used : j <= i
                     IN  [r |-> d.r, ok |-> d.ok, s |-> Take(d.bytes, n)]))

\* rmp::decode::read_str into a scratch buffer of ScratchSize bytes:
\* [r, ok, s].
read_str(r_) ==
    Let(read_str_len(r_), LAMBDA h :
        IF ~h.ok \/ ScratchSize < h.len
        THEN [r |-> h.r, ok |-> FALSE, s |-> <<>>]
        ELSE Let(read_exact(h.r, h.len, <<>>), LAMBDA d :
                 IF d.ok /\ from_utf8(d.bytes)
                 THEN [r |-> d.r, ok |-> TRUE, s |-> d.bytes]
                 ELSE [r |-> d.r, ok |-> FALSE, s |-> <<>>]))

\* read_str(..).unwrap(): a decode error panics; otherwise Ok(string), kept
\* in data.
read_string(r_) ==
    Let(read_str(r_), LAMBDA d :
        IF d.ok THEN [d.r EXCEPT !.data = d.s]
        ELSE [d.r EXCEPT !.res = "Panic", !.data = <<>>])

----------------------------------------------------------------------------
(* State shared by the specifications                                      *)

NoUid == "none"
NoCall ==
    [op |-> "new", prev |-> "new", n |-> 0, first |-> FALSE,
     blk0 |-> 0, pos0 |-> 0]

\* Byte written at (or found at) offset p of the usable region: never 0,
\* and of a period that is no multiple of the block size.
Stamp(p) == 1 + (p % 251)
StampBytes(from, n) == [i \in 1..n |-> Stamp(from + i - 1)]

\* A tag left full of foreign bytes by an earlier use.
StaleMem == [a \in Addrs |-> [i \in 1..N_BLOCK_SIZE |-> 238]]
\* A tag whose usable region holds Stamp(0), Stamp(1), ...
StampedMem ==
    [a \in Addrs |->
        IF \E k \in 1..Len(DATA_BLOCKS) : DATA_BLOCKS[k] = a
        THEN LET k == CHOOSE k \in 1..Len(DATA_BLOCKS) : DATA_BLOCKS[k] = a
             IN  StampBytes((k - 1) * N_BLOCK_SIZE, N_BLOCK_SIZE)
        ELSE Zeros(N_BLOCK_SIZE)]

\* Strings of the model, as UTF-8 bytes.
Ascii(i) == 32 + ((i * 7) % 95)
\* U+00E9, U+20AC, U+1F3B5: scalars of two, three and four bytes.
MultiByte == <<195, 169, 226, 130, 172, 240, 159, 142, 181>>

Str(len, pattern) ==
    CASE pattern = "ascii" -> [i \in 1..len |-> Ascii(i)]
      [] pattern = "nul" -> [i \in 1..len |-> 0]
      [] pattern = "multi" ->
            IF len < Len(MultiByte) THEN [i \in 1..len |-> Ascii(i + 1)]
            ELSE MultiByte \o [i \in 1..(len - Len(MultiByte)) |-> Ascii(i)]

Budgets == {-1} \cup (0..MaxGood)

TagIdle ==
    /\ mem = BlankMem /\ good = -1
    /\ writer = new_writer /\ reader = new_reader
    /\ hw = <<>> /\ call = NoCall /\ res = "Ok" /\ out = <<>>
    /\ ncalls = 0 /\ fed = 0 /\ commits = 0 /\ str = <<>>

NoChip == [kind |-> "none", uid |-> NoUid, good |-> 0]
NoPoll ==
    [chip |-> NoChip, opened |-> "none", before |-> NoUid, sent |-> <<>>,
     readers |-> 0]
NoStreak == [uid |-> NoUid, presences |-> 0]

\* The threads that use the reader chip, each through the RfidController
\* it built: the watcher and the handler of GET rfid-tag.
Threads == {"watcher", "handler"}
Free == "free"
NoBus == [t |-> "none", op |-> "none"]
\* Option<T> on the channel
Absence == [some |-> FALSE, req |-> [SpotifyUri |-> <<>>]]
Presence(req) == [some |-> TRUE, req |-> req]

\* The stdin transmitter before its first line: last = None.
NoLine == [ok |-> FALSE, text |-> <<>>]
StdinIdle == [last |-> Absence, nlines |-> 0, line |-> NoLine, sent |-> <<>>]

\* MetaApp::run before its loop: current_mode = Starting, abortable = None
\* (0), no jukebox task spawned, no command waiting.
MetaIdle ==
    [current_mode |-> "Starting", abortable |-> 0, tasks |-> <<>>,
     control |-> <<>>, cmd |-> "none", reply |-> "none", log |-> <<>>,
     ncmds |-> 0]

\* Blinker::new: abort_handle = None (0), no blinking task, no caller
\* inside run_async.
Clones == {1, 2}
BlinkerIdle ==
    [abort_handle |-> 0, tasks |-> <<>>, at |-> [c \in Clones |-> "idle"],
     handle |-> [c \in Clones |-> 0], last |-> "new"]

\* A thread that has built its RfidController and nothing else.
LkIdle ==
    [at |-> "idle", op |-> "none", obj |-> "none", held |-> FALSE,
     poisoned |-> FALSE, unwinding |-> FALSE, buf |-> <<>>, ret |-> "none",
     calls |-> <<>>, phase |-> "none", want |-> 0, acc |-> <<>>]

ThreadsIdle ==
    /\ pc = [t \in Threads |-> "start"]
    /\ mutex = [t \in Threads |-> Free]
    /\ bus = NoBus
    /\ todo = [t \in Threads |-> 0]
    /\ lk = LkIdle
    /\ stdin = StdinIdle /\ meta = MetaIdle /\ blinker = BlinkerIdle

\* mpsc::channel(): empty, the consumer not yet at its end.
ChannelIdle == queue = <<>> /\ rcvd = <<>> /\ cons = "iterating"

WatcherIdle ==
    /\ last_uid = NoUid /\ tx = <<>> /\ wst = "running"
    /\ poll = NoPoll /\ npolls = 0 /\ scen = 0 /\ streak = NoStreak
    /\ ChannelIdle /\ ThreadsIdle

----------------------------------------------------------------------------
(* SpecWriter: one TagWriter over one tag, driven by write and flush.      *)

WriterWorld ==
    [w |-> writer, mem |-> mem, good |-> good, hw |-> <<>>,
     commits |-> commits, res |-> "Ok"]

WriteLens == (0..MaxSmallLen) \cup {32, 33, 128, 143, 144, 145, 160}

InitWriter ==
    /\ mem = StaleMem
    /\ good \in Budgets
    /\ writer = new_writer /\ reader = new_reader
    /\ hw = <<>> /\ call = NoCall /\ res = "Ok" /\ out = <<>>
    /\ ncalls = 0 /\ fed = 0 /\ commits = 0 /\ str = <<>>
    /\ WatcherIdle

WriterCall(op, n, s) ==
    /\ writer' = s.w /\ mem' = s.mem /\ good' = s.good /\ hw' = s.hw
    /\ commits' = s.commits /\ res' = s.res
    /\ call' = [op |-> op, prev |-> call.op, n |-> n, first |-> (ncalls = 0),
                blk0 |-> writer.current_block,
                pos0 |-> writer.current_pos_in_buffered_data]
    /\ ncalls' = ncalls + 1
    /\ UNCHANGED <<reader, out, str>>
    /\ UNCHANGED watcherVars

\* writer.write(buf): the caller's bytes are those of the stream position.
Write(n) ==
    /\ res = "Ok" /\ ncalls < MaxCalls
    /\ LET from == writer.current_block * N_BLOCK_SIZE
                   + writer.current_pos_in_buffered_data
       IN  WriterCall("write", n, write(WriterWorld, StampBytes(from, n)))
    /\ fed' = fed + n

\* writer.flush()
Flush ==
    /\ res = "Ok" /\ ncalls < MaxCalls
    /\ WriterCall("flush", 0, flush(WriterWorld))
    /\ fed' = 0

\* "hello", and a string that fills more than one block.
Hello == <<104, 101, 108, 108, 111>>
WriterStrings == {Hello, Str(20, "multi")}

\* writer.write_string(s)
WriteStr(s) ==
    /\ res = "Ok" /\ ncalls < MaxCalls
    /\ LET v == write_string(WriterWorld, s) IN
       /\ writer' = v.w /\ mem' = v.mem /\ good' = v.good /\ hw' = v.hw
       /\ commits' = v.commits /\ res' = v.res
    /\ call' = [op |-> "write_string", prev |-> call.op, n |-> Len(s),
                first |-> (ncalls = 0),
                blk0 |-> writer.current_block,
                pos0 |-> writer.current_pos_in_buffered_data]
    /\ ncalls' = ncalls + 1
    /\ str' = s
    /\ fed' = 0
    /\ UNCHANGED <<reader, out>>
    /\ UNCHANGED watcherVars

NextWriter ==
    \/ \E n \in WriteLens : Write(n)
    \/ Flush
    \/ \E s \in WriterStrings : WriteStr(s)

SpecWriter == InitWriter /\ [][NextWriter]_vars

----------------------------------------------------------------------------
(* Claims about the writer, checked under SpecWriter                       *)

Capacity == N_BLOCKS * N_BLOCK_SIZE
Pos == writer.current_pos_in_buffered_data
WritesIn(ops) == SelectSeq(ops, LAMBDA o : o.op = "write")
SmallLen(n) == n >= 1 /\ n <= N_BLOCK_SIZE - 1

\* C7: on a fresh writer a write of exactly 16 bytes commits exactly one
\* block (the first table address, holding those bytes) and leaves the
\* staging buffer empty at offset 0; a write of 1..15 bytes commits no block
\* and touches neither the tag nor the hardware; the flush that follows such
\* a write commits exactly one block.
BlockAccounting ==
    [][ /\ (ncalls = 0 /\ call'.op = "write" /\ call'.n = N_BLOCK_SIZE
            /\ res' = "Ok")
           => /\ commits' = 1
              /\ Len(WritesIn(hw')) = 1
              /\ mem' = [mem EXCEPT ![DATA_BLOCKS[1]] =
                                        StampBytes(0, N_BLOCK_SIZE)]
              /\ writer'.current_pos_in_buffered_data = 0
              /\ writer'.buffered_data = Zeros(N_BLOCK_SIZE)
        /\ (ncalls = 0 /\ call'.op = "write" /\ SmallLen(call'.n)
            /\ res' = "Ok")
           => /\ commits' = 0 /\ mem' = mem /\ hw' = <<>>
              /\ writer'.current_pos_in_buffered_data = call'.n
        /\ (ncalls = 1 /\ call.op = "write" /\ SmallLen(call.n) /\ res = "Ok"
            /\ call'.op = "flush" /\ res' = "Ok")
           => /\ commits' = 1
              /\ Len(WritesIn(hw')) = 1
              /\ writer'.current_block = 1
      ]_vars

\* A flush has followed a first write of 1..15 bytes and committed a block.
BlockAccountingWitness ==
    /\ ncalls = 2 /\ call.op = "flush" /\ call.prev = "write"
    /\ call.blk0 = 0 /\ SmallLen(call.pos0)
    /\ res = "Ok" /\ commits = 1

\* C8: a flush called while the staging buffer is empty commits no block,
\* performs no hardware operation and leaves block index, offset, buffer and
\* tag memory unchanged.
IdempotentFlush ==
    [][ (ncalls' = ncalls + 1 /\ call'.op = "flush" /\ Pos = 0)
        => /\ writer' = writer /\ mem' = mem /\ commits' = commits
           /\ hw' = <<>> /\ res' = "Ok"
      ]_vars

\* A second flush directly after a flush that committed a block.
IdempotentFlushWitness ==
    /\ call.op = "flush" /\ call.prev = "flush" /\ call.pos0 = 0
    /\ ncalls = 3 /\ commits = 1 /\ writer.current_block = 1 /\ res = "Ok"

\* Commits of one call go to strictly increasing table positions.
NoWrapAround ==
    /\ commits <= N_BLOCKS
    /\ \A i, j \in 1..Len(hw) : i < j => hw[i].addr <= hw[j].addr

\* A flush, with staged bytes, on a tag that answers and has a block left.
PartialFlush ==
    /\ ncalls' = ncalls + 1 /\ call'.op = "flush"
    /\ Pos > 0 /\ Pos < N_BLOCK_SIZE
    /\ InTable(writer.current_block) /\ good # 0

\* C11: a flush with n staged bytes (0 < n < 16) commits exactly one block,
\* at the address of the current block index, holding the n staged bytes
\* followed by 16-n zero bytes, advances the block index by one and leaves
\* the staging buffer empty; write_string("hello") on a fresh writer commits
\* exactly one block, at the first usable address, holding the 6 framed
\* bytes followed by 10 zero bytes.
FlushCommitsPadded ==
    [][ /\ PartialFlush
           => LET a == BlockAddr(writer.current_block) IN
              /\ res' = "Ok" /\ commits' = commits + 1
              /\ hw' = <<HwOp("auth", a), HwOp("write", a)>>
              /\ mem' = [mem EXCEPT ![a] =
                            StampBytes(writer.current_block * N_BLOCK_SIZE, Pos)
                            \o Zeros(N_BLOCK_SIZE - Pos)]
              /\ writer' = [new_writer EXCEPT
                               !.current_block = writer.current_block + 1]
        /\ (ncalls = 0 /\ call'.op = "write_string" /\ str' = Hello
            /\ good # 0)
           => /\ res' = "Ok" /\ commits' = 1
              /\ hw' = <<HwOp("auth", DATA_BLOCKS[1]),
                         HwOp("write", DATA_BLOCKS[1])>>
              /\ mem' = [mem EXCEPT ![DATA_BLOCKS[1]] =
                            <<165>> \o Hello \o Zeros(10)]
              /\ writer' = [new_writer EXCEPT !.current_block = 1]
      ]_vars

\* write_string("hello") on a fresh writer, then writes that stage 17 bytes
\* over the second and third block, then the flush of the one staged byte.
FlushCommitsPaddedWitness ==
    /\ ncalls = 3 /\ call.op = "flush" /\ call.prev = "write"
    /\ call.blk0 = 2 /\ call.pos0 = 1 /\ str = Hello
    /\ res = "Ok" /\ commits = 3 /\ writer.current_block = 3
    /\ mem[DATA_BLOCKS[1]] = <<165>> \o Hello \o Zeros(10)
    /\ mem[DATA_BLOCKS[3]] = <<Stamp(2 * N_BLOCK_SIZE)>> \o Zeros(15)

\* C21: writes on a fresh writer with no flush in between, T bytes in all,
\* T <= 144, every write answered by the tag: floor(T/16) blocks are
\* committed, block i of the table holding bytes 16i..16i+15 of the input;
\* the block index is floor(T/16); the staging buffer holds the last
\* T mod 16 bytes at offset T mod 16; every commit of the call is a full
\* block of input.  (fed = 16 * block index + offset characterises the
\* writers that were never flushed after their first byte.)
WriterByteStream ==
    [][ (ncalls' = ncalls + 1 /\ call'.op = "write" /\ res' = "Ok"
         /\ fed = N_BLOCK_SIZE * writer.current_block + Pos
         /\ commits = writer.current_block
         /\ fed' <= Capacity)
        => /\ commits' = fed' \div N_BLOCK_SIZE
           /\ writer'.current_block = fed' \div N_BLOCK_SIZE
           /\ writer'.current_pos_in_buffered_data = fed' % N_BLOCK_SIZE
           /\ Take(writer'.buffered_data, fed' % N_BLOCK_SIZE)
                = StampBytes(N_BLOCK_SIZE * (fed' \div N_BLOCK_SIZE),
                             fed' % N_BLOCK_SIZE)
           /\ \A j \in 0..((fed' \div N_BLOCK_SIZE) - 1) :
                 mem'[BlockAddr(j)]
                    = StampBytes(N_BLOCK_SIZE * j, N_BLOCK_SIZE)
           /\ \A a \in Addrs :
                 (\A j \in 0..((fed' \div N_BLOCK_SIZE) - 1) :
                     a # BlockAddr(j))
                 => mem'[a] = StaleMem[a]
           /\ Len(WritesIn(hw')) = commits' - commits
      ]_vars

\* Three writes, of 17, 16 and 17 bytes: the second and the third complete
\* the staged block and go on with the rest of their input.
WriterByteStreamWitness ==
    /\ ncalls = 3 /\ call.op = "write" /\ call.prev = "write"
    /\ call.n = 17 /\ call.pos0 = 1 /\ call.blk0 = 2
    /\ fed = 50 /\ commits = 3 /\ res = "Ok"
    /\ writer.current_block = 3 /\ Pos = 2

\* C10: a write that takes the bytes written since the last flush beyond
\* 144 does not return successfully, and no commit wraps around to block
\* index 0.
CapacityBoundary ==
    /\ (call.op = "write" /\ fed > Capacity) => res # "Ok"
    /\ NoWrapAround

----------------------------------------------------------------------------
(* SpecReader: one TagReader over one tag, driven by read; the tag may     *)
(* leave the field between two calls.                                      *)

ReaderWorld ==
    [rd |-> reader, mem |-> mem, good |-> good, hw |-> <<>>, res |-> "Ok",
     data |-> <<>>]

ReadLens == (0..MaxReadLen) \cup {ScratchSize}

InitReader ==
    /\ mem = StampedMem
    /\ good \in Budgets
    /\ writer = new_writer /\ reader = new_reader
    /\ hw = <<>> /\ call = NoCall /\ res = "Ok" /\ out = <<>>
    /\ ncalls = 0 /\ fed = 0 /\ commits = 0 /\ str = <<>>
    /\ WatcherIdle

\* reader.read(buf) with buf.len() = len
Read(len) ==
    /\ res = "Ok"
    /\ LET r == read(ReaderWorld, len) IN
       /\ reader' = r.rd /\ good' = r.good /\ hw' = r.hw /\ res' = r.res
       /\ out' = r.data
    /\ call' = [op |-> "read", prev |-> call.op, n |-> len,
                first |-> (call.op = "new"),
                blk0 |-> reader.current_block,
                pos0 |-> reader.current_pos_in_block]
    /\ UNCHANGED <<mem, writer, ncalls, fed, commits, str>>
    /\ UNCHANGED watcherVars

\* The tag is taken out of the field: no later transaction is answered.
PullTag ==
    /\ res = "Ok" /\ good # 0
    /\ good' = 0
    /\ UNCHANGED <<mem, writer, reader, hw, call, res, out, ncalls, fed,
                   commits, str>>
    /\ UNCHANGED watcherVars

NextReader == (\E len \in ReadLens : Read(len)) \/ PullTag

SpecReader == InitReader /\ [][NextReader]_vars

\* The reader's position in the stream of 144 bytes.
Linear(rd) == N_BLOCK_SIZE * rd.current_block + rd.current_pos_in_block

\* C22: a read with block index below 9, for any requested length r >= 0,
\* on a tag that answers, returns the n = min(r, 16 - offset) bytes at
\* offset..offset+n-1 of the current block and moves the cursor forward by
\* exactly n bytes, the block index advancing (offset back to 0) only when
\* the offset reaches 16.
ReadAdvancesByCount ==
    [][ (reader.current_block < N_BLOCKS /\ good # 0
         /\ \E len \in ReadLens : Read(len))
        => LET pos == reader.current_pos_in_block
               n == Min(call'.n, N_BLOCK_SIZE - pos)
           IN  /\ res' = "Ok"
               /\ out' = SubSeq(mem[BlockAddr(reader.current_block)],
                                pos + 1, pos + n)
               /\ Linear(reader') = Linear(reader) + n
               /\ reader'.current_block # reader.current_block
                  => pos + n = N_BLOCK_SIZE
      ]_vars

\* The cursor (block index, offset) of rd1 is not after that of rd2.
LexLeq(rd1, rd2) ==
    \/ rd1.current_block < rd2.current_block
    \/ /\ rd1.current_block = rd2.current_block
       /\ rd1.current_pos_in_block <= rd2.current_pos_in_block

\* C23: in every reachable state of a reader the block index is in 0..9 and
\* the offset in 0..15, and no read moves the pair (block index, offset)
\* backwards in lexicographic order.
ReaderCursor ==
    /\ [](/\ reader.current_block \in 0..N_BLOCKS
          /\ reader.current_pos_in_block \in 0..(N_BLOCK_SIZE - 1))
    /\ [][LexLeq(reader, reader')]_vars

\* A read of the last byte of the last block, after a read that stopped one
\* byte short of it, has taken the cursor to (9, 0).
ReaderCursorWitness ==
    /\ call.op = "read" /\ call.prev = "read"
    /\ call.blk0 = N_BLOCKS - 1 /\ call.pos0 = N_BLOCK_SIZE - 1
    /\ Len(out) = 1 /\ res = "Ok"
    /\ reader = [current_block |-> N_BLOCKS, current_pos_in_block |-> 0]

\* C9: once the reader's block index is 9, every read, for any requested
\* length and whether or not the tag still answers, returns zero bytes with
\* no error, performs no authentication or fetch and leaves the cursor at
\* (9, 0).
EndOfStream ==
    [][ (reader.current_block = N_BLOCKS /\ \E len \in ReadLens : Read(len))
        => /\ out' = <<>> /\ res' = "Ok" /\ hw' = <<>>
           /\ reader' = [current_block |-> N_BLOCKS,
                         current_pos_in_block |-> 0]
      ]_vars

\* A read at end-of-stream that follows another read at end-of-stream, the
\* tag being gone.
EndOfStreamWitness ==
    /\ call.op = "read" /\ call.blk0 = N_BLOCKS /\ call.n > 0
    /\ good = 0 /\ out = <<>> /\ res = "Ok"
    /\ reader.current_block = N_BLOCKS

----------------------------------------------------------------------------
(* SpecCodec: write_string on a fresh writer, then read_string on a fresh  *)
(* reader over the same tag.                                               *)

Strings == {Str(len, p) : len \in 0..MaxStrLen, p \in {"ascii", "nul", "multi"}}

InitCodec ==
    /\ str \in Strings
    /\ mem \in {BlankMem, StaleMem}
    /\ good = -1
    /\ writer = new_writer /\ reader = new_reader
    /\ hw = <<>> /\ call = NoCall /\ res = "Ok" /\ out = <<>>
    /\ ncalls = 0 /\ fed = 0 /\ commits = 0
    /\ WatcherIdle

\* tag.new_writer().write_string(str)
WriteString ==
    /\ call.op = "new"
    /\ LET s == write_string([WriterWorld EXCEPT !.w = new_writer], str) IN
       /\ writer' = s.w /\ mem' = s.mem /\ good' = s.good /\ hw' = s.hw
       /\ commits' = s.commits /\ res' = s.res
    /\ call' = [op |-> "write_string", prev |-> call.op, n |-> Len(str),
                first |-> TRUE, blk0 |-> 0, pos0 |-> 0]
    /\ UNCHANGED <<reader, out, ncalls, fed, str>>
    /\ UNCHANGED watcherVars

\* tag.new_reader().read_string()
ReadString ==
    /\ call.op = "write_string" /\ res = "Ok"
    /\ LET r == read_string([ReaderWorld EXCEPT !.rd = new_reader]) IN
       /\ reader' = r.rd /\ good' = r.good /\ hw' = r.hw /\ res' = r.res
       /\ out' = r.data
    /\ call' = [op |-> "read_string", prev |-> call.op, n |-> 0,
                first |-> TRUE, blk0 |-> 0, pos0 |-> 0]
    /\ UNCHANGED <<mem, writer, ncalls, fed, commits, str>>
    /\ UNCHANGED watcherVars

\* Strings written over an earlier, longer one: the empty string, one
\* block, exactly one block with its header, more than two blocks.
RewriteStrings ==
    {Str(0, "ascii"), Hello, Str(15, "multi"), Str(32, "ascii")}

\* tag.new_writer().write_string(s2) on a tag that already holds str, s2
\* being shorter.
Rewrite(s2) ==
    /\ call.op = "write_string" /\ call.prev = "new" /\ res = "Ok"
    /\ Len(s2) < Len(str)
    /\ LET s == write_string([WriterWorld EXCEPT !.w = new_writer,
                                                 !.commits = 0], s2) IN
       /\ writer' = s.w /\ mem' = s.mem /\ good' = s.good /\ hw' = s.hw
       /\ commits' = s.commits /\ res' = s.res
    /\ str' = s2
    /\ call' = [op |-> "write_string", prev |-> call.op, n |-> Len(s2),
                first |-> FALSE, blk0 |-> 0, pos0 |-> 0]
    /\ UNCHANGED <<reader, out, ncalls, fed>>
    /\ UNCHANGED watcherVars

NextCodec ==
    \/ WriteString
    \/ ReadString
    \/ \E s2 \in RewriteStrings : Rewrite(s2)

SpecCodec == InitCodec /\ [][NextCodec]_vars

\* C1: for every UTF-8 string whose framed encoding is at most 144 bytes,
\* write_string on a fresh writer succeeds and read_string on a fresh reader
\* over the same tag then returns exactly that string.
RoundTrip ==
    Len(Framed(str)) <= Capacity
    => /\ (call.op = "write_string" => res = "Ok")
       /\ (call.op = "read_string" => res = "Ok" /\ out = str)

\* The boundary: a framed encoding of exactly 144 bytes, holding a
\* multi-byte scalar, fills all 9 blocks and is read back.
RoundTripWitness ==
    /\ call.op = "read_string" /\ res = "Ok" /\ out = str
    /\ Len(Framed(str)) = Capacity
    /\ commits = N_BLOCKS
    /\ \E i \in 1..Len(str) : str[i] > 127

\* C20: after write_string(s1) and then a fresh writer's write_string(s2)
\* on the same tag, s2 shorter than s1, read_string on a fresh reader
\* returns exactly s2, whatever bytes of s1 are left in later blocks.
RewriteIsReadBack ==
    [][ (call.op = "write_string" /\ call.prev = "write_string" /\ ReadString)
        => res' = "Ok" /\ out' = str
      ]_vars

\* "hello" was read back from the first block while the second block still
\* holds text of the earlier string.
RewriteIsReadBackWitness ==
    /\ call.op = "read_string" /\ res = "Ok" /\ out = Hello /\ str = Hello
    /\ mem[DATA_BLOCKS[1]] = <<165>> \o Hello \o Zeros(10)
    /\ mem[DATA_BLOCKS[2]] = [i \in 1..N_BLOCK_SIZE |-> Ascii(i + 14)]

----------------------------------------------------------------------------
(* The RFID watcher: RfidController::open_tag and                          *)
(* UserRequestTransmitterRfid::run, with T = UserRequest.                  *)

\* serde_json's form of UserRequest::SpotifyUri(uri): {"SpotifyUri":"uri"}
JsonPrefix == <<123, 34, 83, 112, 111, 116, 105, 102, 121, 85, 114, 105, 34, 58, 34>>
JsonSuffix == <<34, 125>>
PlainChar(b) == b >= 32 /\ b # 34 /\ b # 92

to_string(req) == JsonPrefix \o req.SpotifyUri \o JsonSuffix

\* serde_json::from_str::<UserRequest>: [ok, req].  The strings the model
\* decodes are either of the form above, with no escape and no white space,
\* or no JSON value at all.
from_str(s) ==
    LET n == Len(s)
        inner == SubSeq(s, Len(JsonPrefix) + 1, n - Len(JsonSuffix))
    IN  IF /\ n >= Len(JsonPrefix) + Len(JsonSuffix)
           /\ Take(s, Len(JsonPrefix)) = JsonPrefix
           /\ Skip(s, n - Len(JsonSuffix)) = JsonSuffix
           /\ \A i \in 1..Len(inner) : PlainChar(inner[i])
        THEN [ok |-> TRUE, req |-> [SpotifyUri |-> inner]]
        ELSE [ok |-> FALSE, req |-> [SpotifyUri |-> <<>>]]

\* The tags of the model: A and B hold a request (B's fills several blocks
\* and uses the two-byte length header), G was never written, J holds a
\* string that is no request.
Uids == {"A", "B", "G", "J"}
ReqA == [SpotifyUri |-> Str(9, "ascii")]
ReqB == [SpotifyUri |-> Str(40, "multi")]

Written(data) ==
    write_string([w |-> new_writer, mem |-> StaleMem, good |-> -1,
                  hw |-> <<>>, commits |-> 0, res |-> "Ok"], data).mem

TagMem ==
    [u \in Uids |->
        CASE u = "A" -> Written(to_string(ReqA))
          [] u = "B" -> Written(to_string(ReqB))
          [] u = "G" -> BlankMem
          [] u = "J" -> Written(Str(5, "ascii"))]

\* format!("{:?}", tag.uid)
DebugFmt(uid) == "Uid(" \o uid \o ")"


\* What the reader chip answers during one poll: no card in the field
\* (new_card_present fails), a bus fault in new_card_present, a fault in
\* read_card_serial, or a card with its identifier; good is the number of
\* block transactions the card then answers (-1: all, 0: it is gone again).
ChipOutcomes ==
    {[kind |-> k, uid |-> NoUid, good |-> 0] :
        k \in {"nocard", "busfault", "serialfault"}}
    \cup {[kind |-> "tag", uid |-> u, good |-> g] : u \in Uids, g \in {-1, 0}}

\* RfidController::open_tag: "Some" with the identifier, "None", or "Err".
open_tag(chip) ==
    CASE chip.kind = "tag" -> [r |-> "Some", uid |-> chip.uid]
      [] chip.kind = "serialfault" -> [r |-> "Err", uid |-> NoUid]
      [] OTHER -> [r |-> "Err", uid |-> NoUid]

\* Drop for TagReader: halt_a, then stop_crypto1.
DropOps == <<HwOp("halt_a", 0), HwOp("stop_crypto1", 0)>>

\* The watcher's locals and what one iteration did:
\*   [last_uid, tx, wst, hw, opened, sent, readers]
Watcher(l, t) ==
    [last_uid |-> l, tx |-> t, wst |-> "running", hw |-> <<>>,
     opened |-> "none", sent |-> <<>>, readers |-> 0]

\* A send that puts the event on the channel twice.
SendTwice(w, ev) ==
    [w EXCEPT !.tx = @ \o <<ev, ev>>, !.sent = @ \o <<ev, ev>>]

\* tx.send(ev).expect("tx send")
Send(w, ev) == [w EXCEPT !.tx = Append(@, ev), !.sent = Append(@, ev)]

\* The Ok(Some(tag)) arm with a new identifier: new_reader, read_string,
\* from_str, send; then last_uid = Some(current_uid) and the reader's drop.
\* A panic inside read holds the lock, so the reader's drop, run while
\* unwinding, panics on the poisoned lock and the process aborts; a panic of
\* read_string's unwrap or of from_str's expect unwinds the thread alone.
NewTag(w, chip, current_uid) ==
    Let(read_string([rd |-> new_reader, mem |-> TagMem[chip.uid],
                     good |-> chip.good, hw |-> <<>>, res |-> "Ok",
                     data |-> <<>>]),
        LAMBDA r :
        LET hwFault == r.res = "Panic" /\ r.good = 0
            d == from_str(r.data)
            v == [w EXCEPT !.readers = 1, !.hw = r.hw]
        IN  IF hwFault THEN [v EXCEPT !.wst = "aborted"]
            ELSE IF r.res = "Panic" \/ (r.res = "Ok" /\ ~d.ok)
            THEN [v EXCEPT !.wst = "panicked", !.hw = @ \o DropOps]
            ELSE IF r.res = "Ok"
            THEN [Send(v, Presence(d.req)) EXCEPT !.last_uid = current_uid,
                                                  !.hw = @ \o DropOps]
            \* the Err(err) arm: error!(..), last_uid = Some(current_uid)
            ELSE [v EXCEPT !.last_uid = current_uid, !.hw = @ \o DropOps])

\* One iteration of the loop of run, up to the sleep.
runRereads(w, chip) ==
    LET t == open_tag(chip)
        v == [w EXCEPT !.opened = t.r]
    IN  CASE t.r = "Err" -> v
          [] t.r = "None" ->
                IF v.last_uid # NoUid
                THEN Send([v EXCEPT !.last_uid = NoUid], Absence)
                ELSE v
          [] t.r = "Some" -> NewTag(v, chip, DebugFmt(t.uid))

\* A loop that falls back to no-tag when open_tag fails.
runForgetsOnErr(w, chip) ==
    LET t == open_tag(chip)
        v == [w EXCEPT !.opened = t.r]
    IN  CASE t.r = "Err" -> [v EXCEPT !.last_uid = NoUid]
          [] t.r = "None" ->
                IF v.last_uid # NoUid
                THEN Send([v EXCEPT !.last_uid = NoUid], Absence)
                ELSE v
          [] t.r = "Some" ->
                LET current_uid == DebugFmt(t.uid) IN
                IF v.last_uid # current_uid
                THEN NewTag(v, chip, current_uid)
                ELSE v

run(w, chip) ==
    LET t == open_tag(chip)
        v == [w EXCEPT !.opened = t.r]
    IN  CASE t.r = "Err" -> v
          [] t.r = "None" ->
                IF v.last_uid # NoUid
                THEN Send([v EXCEPT !.last_uid = NoUid], Absence)
                ELSE v
          [] t.r = "Some" ->
                LET current_uid == DebugFmt(t.uid) IN
                IF v.last_uid # current_uid
                THEN NewTag(v, chip, current_uid)
                ELSE v

----------------------------------------------------------------------------
(* SpecWatcher: the watcher thread polling a reader chip whose answers the *)
(* environment chooses.                                                    *)

TagChip(u) == [kind |-> "tag", uid |-> u, good |-> -1]
NoCard == [kind |-> "nocard", uid |-> NoUid, good |-> 0]

\* [no tag, tag A, tag A, tag A, no tag, tag B]
Scenario ==
    <<NoCard, TagChip("A"), TagChip("A"), TagChip("A"), NoCard, TagChip("B")>>

Presences(evs) == Len(SelectSeq(evs, LAMBDA e : e.some))

InitWatcher == TagIdle /\ WatcherIdle

\* One iteration of the watcher's loop: open_tag, the match, the sleep.
Poll(chip) ==
    /\ wst = "running" /\ npolls < MaxPolls
    /\ LET w == run(Watcher(last_uid, tx), chip) IN
       /\ last_uid' = w.last_uid /\ tx' = w.tx /\ wst' = w.wst
       /\ hw' = w.hw
       /\ queue' = queue \o w.sent
       /\ poll' = [chip |-> chip, opened |-> w.opened, before |-> last_uid,
                   sent |-> w.sent, readers |-> w.readers]
       /\ streak' =
            IF chip.kind # "tag" THEN NoStreak
            ELSE [uid |-> chip.uid,
                  presences |-> Presences(w.sent)
                      + IF streak.uid = chip.uid THEN streak.presences ELSE 0]
    /\ npolls' = npolls + 1
    /\ scen' = IF scen = npolls /\ npolls < Len(Scenario)
                  /\ chip = Scenario[npolls + 1]
               THEN scen + 1 ELSE -1
    /\ UNCHANGED <<mem, good, writer, reader, call, res, out, ncalls, fed,
                   commits, str, rcvd, cons, threadVars>>

\* FIRST_REQUEST, when set and deserializable (here: the request of tag A).
first_req == ReqA

\* UserRequestsTransmitter::run: the first request is sent before the
\* backend's loop starts; without FIRST_REQUEST the loop starts at once.
FirstRequest ==
    /\ wst = "running" /\ npolls = 0 /\ tx = <<>>
    /\ tx' = Append(tx, Presence(first_req))
    /\ queue' = Append(queue, Presence(first_req))
    /\ UNCHANGED <<mem, good, writer, reader, hw, call, res, out, ncalls, fed,
                   commits, str, last_uid, wst, poll, npolls, scen, streak,
                   rcvd, cons, threadVars>>

\* The sender is gone once the watcher thread has ended; the whole process,
\* consumer included, is gone once it has aborted.
SenderDropped == wst = "panicked"
ProcessAlive == wst # "aborted"

\* Iterator::next for UserRequests: rx.recv() hands out the oldest event;
\* with the channel empty and the sender dropped it fails and next returns
\* None.
Recv ==
    /\ ProcessAlive /\ cons = "iterating"
    /\ IF queue # <<>>
       THEN /\ rcvd' = Append(rcvd, Head(queue))
            /\ queue' = Tail(queue)
            /\ cons' = cons
       ELSE /\ SenderDropped
            /\ cons' = "ended"
            /\ UNCHANGED <<queue, rcvd>>
    /\ UNCHANGED <<mem, good, writer, reader, hw, call, res, out, ncalls, fed,
                   commits, str, last_uid, tx, wst, poll, npolls, scen, streak,
                   threadVars>>

NextWatcher ==
    \/ \E chip \in ChipOutcomes : Poll(chip)
    \/ FirstRequest
    \/ Recv

SpecWatcher == InitWatcher /\ [][NextWatcher]_vars

Polled == npolls' = npolls + 1
NewId == poll'.chip.kind = "tag" /\ last_uid # DebugFmt(poll'.chip.uid)
KnownId == poll'.chip.kind = "tag" /\ last_uid = DebugFmt(poll'.chip.uid)

\* C2: when successive polls observe [no tag, tag A, tag A, tag A, no tag,
\* tag B], the events sent are exactly [presence(request of A), absence,
\* presence(request of B)].
EdgeTriggeringScenario ==
    scen = Len(Scenario) => tx = <<Presence(ReqA), Absence, Presence(ReqB)>>

\* C3: a poll that finds a tag whose identifier is that of the tag-present
\* state creates no reader, performs no hardware operation on the tag, sends
\* no event and leaves the watcher state unchanged; and a run of consecutive
\* polls finding one identifier sends at most one presence event.
KnownTagIsNoOp ==
    [][ /\ (Polled /\ KnownId)
           => /\ poll'.readers = 0 /\ hw' = <<>>
              /\ poll'.sent = <<>> /\ tx' = tx
              /\ last_uid' = last_uid /\ wst' = wst
        /\ streak'.presences <= 1
      ]_vars

\* The third poll of a run on one identifier, the tag not answering any
\* block transaction: one presence was sent, by the first.
KnownTagWitness ==
    /\ poll.chip.kind = "tag" /\ poll.before = DebugFmt(poll.chip.uid)
    /\ poll.chip.good = 0
    /\ streak.presences = 1 /\ Len(tx) = 1 /\ npolls = 3
    /\ wst = "running"

\* C4: a poll that finds no tag sends exactly one absence event and moves to
\* no-tag when the state was tag-present, and sends nothing when the state
\* was already no-tag.
NoTagPoll ==
    [][ (Polled /\ poll'.chip.kind = "nocard")
        => IF last_uid # NoUid
           THEN poll'.sent = <<Absence>> /\ tx' = Append(tx, Absence)
                /\ last_uid' = NoUid
           ELSE poll'.sent = <<>> /\ tx' = tx /\ last_uid' = NoUid
      ]_vars

\* C5: open_tag returns Ok(None) whenever the reader chip reports that no
\* new card is present, and an error only for a bus or read fault.
AbsenceIsNotAnError ==
    /\ poll.chip.kind = "nocard" => poll.opened = "None"
    /\ poll.opened = "Err" => poll.chip.kind \in {"busfault", "serialfault"}

\* The string framing on tag u does not decode (read_str fails).
Undecodable(u) ==
    ~read_str([rd |-> new_reader, mem |-> TagMem[u], good |-> -1,
               hw |-> <<>>, res |-> "Ok", data |-> <<>>]).ok

\* C6: when a poll finds a tag with a new identifier whose content does not
\* decode, the watcher keeps running, sends no event and is in no-tag
\* afterwards (so that the next poll tries again).
DecodeFailureIsRetried ==
    [][ (Polled /\ NewId /\ poll'.chip.good = -1
         /\ Undecodable(poll'.chip.uid))
        => wst' = "running" /\ poll'.sent = <<>> /\ last_uid' = NoUid
      ]_vars

\* C12: every TagReader the watcher creates is disposed of with the tag
\* halted and the crypto state cleared: the hardware operations of a poll
\* that created a reader end with halt_a, stop_crypto1, whether the read
\* succeeded, failed or was left early.
SessionRelease ==
    poll.readers = 1
    => /\ Len(hw) >= Len(DropOps)
       /\ SubSeq(hw, Len(hw) - Len(DropOps) + 1, Len(hw)) = DropOps

----------------------------------------------------------------------------
(* Failures of the tag, checked under SpecWriter and SpecReader            *)

\* C13: when the authentication or the commit of a block fails during
\* write, flush or write_string, the call returns an error value to its
\* caller (it neither panics nor reports success), and the blocks the writer
\* committed before keep their content.
WriteFailureIsReturned ==
    [][ (ncalls' = ncalls + 1 /\ call'.op \in {"write", "flush", "write_string"}
         /\ hw' # <<>> /\ hw'[Len(hw')].op = "auth")
        => /\ res' = "Err"
           /\ commits' = commits + Len(WritesIn(hw'))
           /\ \A j \in 0..(writer.current_block - 1) :
                 mem'[BlockAddr(j)] = mem[BlockAddr(j)]
           /\ \A i \in 1..Len(hw') :
                 hw'[i].op = "write" => mem'[hw'[i].addr] # mem[hw'[i].addr]
      ]_vars

\* C14: when the authentication or the fetch of the current block fails
\* during read, the call returns an error value: it neither panics nor
\* returns bytes.
ReadFailureIsReturned ==
    [][ ((\E len \in ReadLens : Read(len))
         /\ hw' # <<>> /\ hw'[Len(hw')].op = "auth")
        => res' = "Err" /\ out' = <<>>
      ]_vars

----------------------------------------------------------------------------
(* Claims about the watcher thread, checked under SpecWatcher              *)

\* C15: the watcher loop never terminates: whatever a poll finds (an error
\* of open_tag, no tag, the known tag, a new tag that decodes, a new tag
\* whose read, decode or deserialization fails), the watcher is still
\* running after it, ready for the next poll.
WatcherNeverTerminates ==
    [][ Polled => wst' = "running" ]_vars

\* C16: the events returned by successive calls of next are, at every
\* moment, the events sent so far without the ones still in the channel, in
\* the order sent (none dropped, duplicated or reordered), and every event
\* sent is received: the consumer is never gone with events left in the
\* channel.
ChannelDelivery ==
    /\ tx = rcvd \o queue
    /\ (~ProcessAlive \/ cons = "ended") => queue = <<>>

\* C26: the channel has bounded occupancy: a send waits for a consumer that
\* does not receive, so the events in the channel cannot pile up as fast as
\* the watcher alone produces them (the first request and one event per
\* poll).
BoundedOccupancy == Len(queue) <= MaxPolls

\* What read_string and from_str make of the content of tag u.
RequestOn(u) ==
    Let(read_str([rd |-> new_reader, mem |-> TagMem[u], good |-> -1,
                  hw |-> <<>>, res |-> "Ok", data |-> <<>>]),
        LAMBDA d : [ok |-> d.ok /\ from_str(d.s).ok, req |-> from_str(d.s).req])

\* C27: a poll that finds a tag with a new identifier whose content
\* decodes sends exactly one event, the presence of the decoded request,
\* and sets the state to tag-present(new identifier), from no-tag and from
\* tag-present(other identifier) alike: no absence is sent.
NewTagIsAnnounced ==
    [][ (Polled /\ NewId /\ poll'.chip.good = -1
         /\ RequestOn(poll'.chip.uid).ok)
        => LET ev == Presence(RequestOn(poll'.chip.uid).req) IN
           /\ poll'.sent = <<ev>>
           /\ tx' = Append(tx, ev) /\ queue' = Append(queue, ev)
           /\ last_uid' = DebugFmt(poll'.chip.uid)
           /\ wst' = "running"
      ]_vars

\* Tag B replaces tag A between two polls: the events are the request of A
\* and then the request of B.
NewTagIsAnnouncedWitness ==
    /\ poll.before = DebugFmt("A") /\ poll.chip = TagChip("B")
    /\ last_uid = DebugFmt("B")
    /\ tx = <<Presence(ReqA), Presence(ReqB)>>
    /\ wst = "running"

\* C28: a poll in which open_tag fails creates no reader, sends no event
\* and leaves the state unchanged; a poll that then finds the tag of the
\* tag-present state neither reads nor announces it again.
ErrorKeepsState ==
    [][ /\ (Polled /\ poll'.opened = "Err")
           => /\ poll'.readers = 0 /\ poll'.sent = <<>> /\ tx' = tx
              /\ last_uid' = last_uid /\ wst' = "running"
        /\ (Polled /\ poll.opened = "Err" /\ last_uid # NoUid
            /\ poll'.chip.kind = "tag"
            /\ poll.before = DebugFmt(poll'.chip.uid))
           => /\ poll'.readers = 0 /\ hw' = <<>>
              /\ poll'.sent = <<>> /\ tx' = tx
      ]_vars

\* Tag A was announced, then open_tag failed in a poll, then a poll found
\* tag A again: still one event.
ErrorKeepsStateWitness ==
    /\ npolls = 3 /\ poll.chip = TagChip("A") /\ poll.before = DebugFmt("A")
    /\ streak = [uid |-> "A", presences |-> 0]
    /\ last_uid = DebugFmt("A") /\ tx = <<Presence(ReqA)>>
    /\ poll.readers = 0

\* C29: in the events the watcher has sent, an absence is never the first
\* and never directly follows another absence.
AbsenceFollowsPresence ==
    \A i \in 1..Len(tx) : tx[i] = Absence => i > 1 /\ tx[i - 1] # Absence

----------------------------------------------------------------------------
(* SpecBus: the watcher thread and the handler of GET rfid-tag on the one  *)
(* reader chip, one step per lock acquisition and per chip operation.      *)
(* Each thread works through the RfidController it built with              *)
(* RfidController::new, which creates the Mutex the thread then locks.     *)

MaxRounds == 2

\* Block transactions read_string needs on tag u (every one answered).
Transactions(u) ==
    Len(read_string([rd |-> new_reader, mem |-> TagMem[u], good |-> -1,
                     hw |-> <<>>, res |-> "Ok", data |-> <<>>]).hw) \div 2

\* The tag that may lie on the reader.
BusTag == "A"

InitBus == TagIdle /\ WatcherIdle

Step(t, to) == pc' = [pc EXCEPT ![t] = to]
OnBus(t, op) == bus' = [t |-> t, op |-> op]
Acquire(t) == mutex[t] = Free /\ mutex' = [mutex EXCEPT ![t] = t]
Release(t) == mutex' = [mutex EXCEPT ![t] = Free]
BusFrame ==
    UNCHANGED <<mem, good, writer, reader, hw, call, res, out, ncalls, fed,
                commits, str, wst, poll, scen, streak, rcvd, cons, lk,
                stdin, meta, blinker>>

\* After open_tag returned Err: the watcher reports and sleeps; the
\* handler's unwrap panics and the request ends.
AfterErr(t) == IF t = "watcher" THEN "sleep" ELSE "done"

\* After open_tag returned Ok(Some(tag)): the watcher skips a known tag;
\* otherwise new_reader and read_string.
AfterSome(t) ==
    IF t = "watcher" /\ last_uid = DebugFmt(BusTag) THEN "sleep" ELSE "read"

\* RfidController::new: Spidev::open, mfrc522.init(), a new Mutex.
New(t) ==
    /\ pc[t] = "start"
    /\ OnBus(t, "init") /\ Step(t, "open_tag")
    /\ mutex' = [mutex EXCEPT ![t] = Free]
    /\ UNCHANGED <<todo, last_uid, tx, queue, npolls>> /\ BusFrame

\* self.mfrc522.lock().unwrap() in open_tag, read and drop.
Lock(t) ==
    /\ pc[t] \in {"open_tag", "read", "drop"}
    /\ Acquire(t)
    /\ Step(t, CASE pc[t] = "open_tag" -> "card"
                 [] pc[t] = "read" -> "auth"
                 [] pc[t] = "drop" -> "halt")
    /\ UNCHANGED <<bus, todo, last_uid, tx, queue, npolls>> /\ BusFrame

\* open_tag: new_card_present; on Err the function returns (guard dropped).
CardPresentKeepsGuard(t, present) ==
    /\ pc[t] = "card"
    /\ OnBus(t, "new_card_present")
    /\ IF present THEN Step(t, "serial") /\ UNCHANGED mutex
       ELSE Step(t, AfterErr(t)) /\ UNCHANGED mutex
    /\ UNCHANGED <<todo, last_uid, tx, queue, npolls>> /\ BusFrame

CardPresent(t, present) ==
    /\ pc[t] = "card"
    /\ OnBus(t, "new_card_present")
    /\ IF present THEN Step(t, "serial") /\ UNCHANGED mutex
       ELSE Step(t, AfterErr(t)) /\ Release(t)
    /\ UNCHANGED <<todo, last_uid, tx, queue, npolls>> /\ BusFrame

\* open_tag: read_card_serial, then the function returns (guard dropped).
CardSerial(t, ok) ==
    /\ pc[t] = "serial"
    /\ OnBus(t, "read_card_serial") /\ Release(t)
    /\ IF ok
       THEN /\ Step(t, AfterSome(t))
            /\ todo' = [todo EXCEPT ![t] = Transactions(BusTag)]
       ELSE Step(t, AfterErr(t)) /\ UNCHANGED todo
    /\ UNCHANGED <<last_uid, tx, queue, npolls>> /\ BusFrame

\* read: authenticate(..).expect(..); a failure panics with the lock held
\* and the reader's drop then aborts the process.
Authenticate(t, ok) ==
    /\ pc[t] = "auth"
    /\ OnBus(t, "authenticate")
    /\ IF ok THEN Step(t, "fetch")
       ELSE pc' = [u \in Threads |-> "aborted"]
    /\ UNCHANGED <<mutex, todo, last_uid, tx, queue, npolls>> /\ BusFrame

\* read: mifare_read, copy, advance, return (guard dropped); read_string
\* goes on until it has its bytes.
MifareRead(t) ==
    /\ pc[t] = "fetch"
    /\ OnBus(t, "mifare_read") /\ Release(t)
    /\ todo' = [todo EXCEPT ![t] = @ - 1]
    /\ Step(t, IF todo[t] > 1 THEN "read" ELSE "decoded")
    /\ UNCHANGED <<last_uid, tx, queue, npolls>> /\ BusFrame

\* from_str; the watcher sends the request and remembers the identifier.
Decoded(t) ==
    /\ pc[t] = "decoded"
    /\ Step(t, "drop")
    /\ IF t = "watcher"
       THEN /\ tx' = Append(tx, Presence(ReqA))
            /\ queue' = Append(queue, Presence(ReqA))
            /\ last_uid' = DebugFmt(BusTag)
       ELSE UNCHANGED <<tx, queue, last_uid>>
    /\ UNCHANGED <<mutex, bus, todo, npolls>> /\ BusFrame

\* Drop for TagReader: halt_a
HaltA(t) ==
    /\ pc[t] = "halt"
    /\ OnBus(t, "halt_a") /\ Step(t, "stop")
    /\ UNCHANGED <<mutex, todo, last_uid, tx, queue, npolls>> /\ BusFrame

\* Drop for TagReader: stop_crypto1, then the guard is dropped.
StopCrypto1(t) ==
    /\ pc[t] = "stop"
    /\ OnBus(t, "stop_crypto1") /\ Release(t)
    /\ Step(t, IF t = "watcher" THEN "sleep" ELSE "done")
    /\ UNCHANGED <<todo, last_uid, tx, queue, npolls>> /\ BusFrame

\* The watcher's sleep ends and the loop polls again.
Wake ==
    /\ pc["watcher"] = "sleep" /\ npolls < MaxRounds
    /\ Step("watcher", "open_tag")
    /\ npolls' = npolls + 1
    /\ UNCHANGED <<mutex, bus, todo, last_uid, tx, queue>> /\ BusFrame

\* The next GET rfid-tag request.
NextRequest ==
    /\ pc["handler"] = "done"
    /\ Step("handler", "start")
    /\ UNCHANGED <<mutex, bus, todo, last_uid, tx, queue, npolls>> /\ BusFrame

NextBus ==
    \/ \E t \in Threads :
        \/ New(t)
        \/ Lock(t)
        \/ \E present \in BOOLEAN : CardPresent(t, present)
        \/ \E ok \in BOOLEAN : CardSerial(t, ok)
        \/ \E ok \in BOOLEAN : Authenticate(t, ok)
        \/ MifareRead(t)
        \/ Decoded(t)
        \/ HaltA(t)
        \/ StopCrypto1(t)
    \/ Wake
    \/ NextRequest

SpecBus == InitBus /\ [][NextBus]_vars

\* C17: whenever the watcher thread is in its inter-poll sleep it holds no
\* lock on the reader chip: the guards of open_tag, of every read and of the
\* reader's disposal have been released.
SleepsUnlocked ==
    pc["watcher"] = "sleep" => \A c \in Threads : mutex[c] # "watcher"

\* The watcher sleeps after its second poll, which found no card; its first
\* poll read a new tag and disposed of the reader.
SleepsUnlockedWitness ==
    /\ pc["watcher"] = "sleep" /\ npolls = 1
    /\ last_uid = DebugFmt(BusTag) /\ Len(tx) = 1
    /\ bus = [t |-> "watcher", op |-> "new_card_present"]

\* Thread t is inside a block transaction: authenticated, fetch pending.
InTransaction(t) == pc[t] = "fetch"
\* Thread u issues an operation on the chip.
ChipStep(u) ==
    /\ pc[u] \in {"start", "card", "serial", "auth", "fetch", "halt", "stop"}
    /\ pc'[u] # pc[u]

\* C18: one transaction at a time on the reader chip: while a thread is
\* between its authenticate and its fetch, no other thread issues an
\* operation on the chip.
OneTransactionAtATime ==
    [][ \A t, u \in Threads : (t # u /\ InTransaction(t)) => ~ChipStep(u)
      ]_vars

----------------------------------------------------------------------------
(* SpecDecode: read_string on tags whose content was not produced by       *)
(* write_string: any header, a payload that may not fit.                   *)

MaxDeclared == 150

\* The usable region of a tag memory, as 144 bytes, and back.
RegionOf(m) == Concat([k \in 1..Len(DATA_BLOCKS) |-> m[DATA_BLOCKS[k]]])
MemOf(region) ==
    [a \in Addrs |->
        IF \E k \in 1..Len(DATA_BLOCKS) : DATA_BLOCKS[k] = a
        THEN LET k == CHOOSE k \in 1..Len(DATA_BLOCKS) : DATA_BLOCKS[k] = a
             IN  SubSeq(region, (k - 1) * N_BLOCK_SIZE + 1, k * N_BLOCK_SIZE)
        ELSE Zeros(N_BLOCK_SIZE)]

\* Headers found on a tag: every str 8 length up to MaxDeclared, every
\* fixstr length, some str 16 and str 32 lengths, and bytes that start no
\* string (0x00, nil, bin 8, 0xee).
Headers ==
    {<<217, n>> : n \in 0..MaxDeclared}
    \cup {<<160 + n>> : n \in 0..31}
    \cup {<<218, 0, 5>>, <<218, 0, 200>>, <<218, 4, 1>>, <<218, 255, 255>>,
          <<219, 0, 0, 0, 5>>, <<219, 0, 1, 0, 0>>}
    \cup {<<0>>, <<192>>, <<196>>, <<238>>}

\* A region that starts with header h; the rest is text, and the last byte
\* of the region is the marker of str 8.
Foreign(h) ==
    h \o [i \in 1..(N_BLOCKS * N_BLOCK_SIZE - Len(h) - 1) |-> Ascii(i)]
      \o <<217>>

\* A reader that has consumed all but the last byte of the region.
AtLastByte ==
    [current_block |-> N_BLOCKS - 1, current_pos_in_block |-> N_BLOCK_SIZE - 1]

InitDecode ==
    /\ mem \in {MemOf(Foreign(h)) : h \in Headers}
    /\ reader \in {new_reader, AtLastByte}
    /\ good = -1
    /\ writer = new_writer
    /\ hw = <<>> /\ call = NoCall /\ res = "Ok" /\ out = <<>>
    /\ ncalls = 0 /\ fed = 0 /\ commits = 0 /\ str = <<>>
    /\ WatcherIdle

\* reader.read_string()
Decode ==
    /\ call.op = "new"
    /\ LET r == read_string(ReaderWorld) IN
       /\ reader' = r.rd /\ good' = r.good /\ hw' = r.hw /\ res' = r.res
       /\ out' = r.data
    /\ call' = [op |-> "read_string", prev |-> call.op, n |-> 0,
                first |-> TRUE,
                blk0 |-> reader.current_block,
                pos0 |-> reader.current_pos_in_block]
    /\ UNCHANGED <<mem, writer, ncalls, fed, commits, str>>
    /\ UNCHANGED watcherVars

NextDecode == Decode

SpecDecode == InitDecode /\ [][NextDecode]_vars

\* What the reader had before it when read_string was called.
Rest == Skip(RegionOf(mem), call.blk0 * N_BLOCK_SIZE + call.pos0)

\* The header at the start of bytes: how long it is and what it declares;
\* width 0: no string header, or one cut short by the end of the region.
HeaderOf(bytes) ==
    LET b == bytes[1]
        w == IF b >= 160 /\ b <= 191 THEN 1
             ELSE IF b = 217 THEN 2
             ELSE IF b = 218 THEN 3
             ELSE IF b = 219 THEN 5
             ELSE 0
    IN  IF w = 0 \/ w > Len(bytes) THEN [width |-> 0, len |-> 0]
        ELSE IF w = 1 THEN [width |-> 1, len |-> b - 160]
        ELSE [width |-> w, len |-> BE(SubSeq(bytes, 2, w))]

BadFraming ==
    \/ HeaderOf(Rest).width = 0
    \/ HeaderOf(Rest).width + HeaderOf(Rest).len > Len(Rest)

\* C19: read_string on a tag whose header is malformed or cut short, or
\* declares more bytes than are left in the 9 usable blocks, returns an
\* error to its caller; the reader fetches no block beyond the 9th and
\* returns no string that is not the declared bytes of the region.
DecodeErrorIsReturned ==
    call.op = "read_string"
    => /\ BadFraming => res = "Err"
       /\ \A i \in 1..Len(hw) :
            \E k \in 1..Len(DATA_BLOCKS) : hw[i].addr = DATA_BLOCKS[k]
       /\ res = "Ok"
          => out = SubSeq(Rest, HeaderOf(Rest).width + 1,
                          HeaderOf(Rest).width + HeaderOf(Rest).len)

----------------------------------------------------------------------------
(* SpecLocks: one thread that uses its controller, a tag and a writer or a *)
(* reader, step by step: every lock().unwrap(), every operation on the     *)
(* chip and every release of the guard is a step of its own.  hw holds the *)
(* chip operations of the current (or the last) lock hold; lk.held says    *)
(* that a MutexGuard of the thread is alive.                               *)

MaxOps == 3

LockLens == {0, 1, 17, 33}
LockStrings == {Str(40, "multi")}

\* The tag in the field: one that holds a request, one whose header
\* declares more bytes than the tag has, one with a str 16 header.
LockTags ==
    {TagMem["B"], MemOf(Foreign(<<217, MaxDeclared>>)),
     MemOf(Foreign(<<218, 0, 5>>))}

InitLocks ==
    /\ mem \in LockTags /\ good = -1
    /\ writer = new_writer /\ reader = new_reader
    /\ hw = <<>> /\ call = NoCall /\ res = "Ok" /\ out = <<>>
    /\ ncalls = 0 /\ fed = 0 /\ commits = 0 /\ str = <<>>
    /\ WatcherIdle

LkFrame ==
    UNCHANGED <<good, call, res, fed, commits, str, last_uid, tx, wst, poll,
                npolls, scen, streak, chanVars, pc, mutex, bus, todo,
                stdin, meta, blinker>>

\* The call in progress returns Ok to its caller: to the thread, or to
\* write_string, which goes on with its next call.
Returned(l) ==
    IF l.calls = <<>> THEN [l EXCEPT !.at = "idle"]
    ELSE [l EXCEPT !.at = "next"]

\* A panic while the guard is alive: unwinding drops the guard, which
\* poisons the Mutex, and then the writer or reader of the caller.
PanicLocked(l) ==
    [l EXCEPT !.held = FALSE, !.poisoned = TRUE, !.unwinding = TRUE,
              !.calls = <<>>,
              !.at = IF l.obj \in {"writer", "reader"} THEN "drop"
                     ELSE "panicked"]

\* A panic with no guard alive (the unwrap of read_string).
PanicUnlocked(l) ==
    [l EXCEPT !.unwinding = TRUE, !.calls = <<>>, !.at = "drop"]

\* A panic inside drop: a second panic while unwinding aborts the process.
PanicInDrop(l) ==
    [l EXCEPT !.held = FALSE, !.poisoned = TRUE, !.obj = "none",
              !.at = IF l.unwinding THEN "aborted" ELSE "panicked"]

\* lock().unwrap() at the place l.at, the thread going on at `to`.
LockAt(from, to) ==
    /\ lk.at = from /\ ~lk.held
    /\ lk' = [lk EXCEPT !.held = TRUE, !.at = to]
    /\ hw' = <<>>

\* write taking the lock where read and flush take theirs: at its top.
writeTopLocked(l, w, buf) ==
    IF w.current_pos_in_buffered_data > 0
    THEN LET pos == w.current_pos_in_buffered_data
             k == Min(Len(buf), N_BLOCK_SIZE - pos)
             v == [w EXCEPT
                     !.buffered_data =
                         Take(@, pos) \o Take(buf, k) \o Skip(@, pos + k),
                     !.current_pos_in_buffered_data = @ + k]
         IN  IF v.current_pos_in_buffered_data = N_BLOCK_SIZE
             THEN [lk |-> [l EXCEPT !.at = "flush", !.ret = "chunks",
                                    !.held = TRUE, !.buf = Skip(buf, k)],
                   w |-> v]
             ELSE [lk |-> Returned([l EXCEPT !.buf = <<>>]), w |-> v]
    ELSE [lk |-> [l EXCEPT !.at = "chunks", !.held = TRUE, !.buf = buf],
          w |-> w]

\* write, lines 139-163: top up the staged block; when that completes it,
\* call flush and go on with the rest of buf, else return.
writeTop(l, w, buf) ==
    IF w.current_pos_in_buffered_data > 0
    THEN LET pos == w.current_pos_in_buffered_data
             n_space_left_in_buffered_data == N_BLOCK_SIZE - pos
             to_copy_into_buffered_data ==
                 Min(Len(buf), n_space_left_in_buffered_data)
             v == [w EXCEPT
                     !.buffered_data =
                         Take(@, pos)
                         \o Take(buf, to_copy_into_buffered_data)
                         \o Skip(@, pos + to_copy_into_buffered_data),
                     !.current_pos_in_buffered_data =
                         @ + to_copy_into_buffered_data]
         IN  IF v.current_pos_in_buffered_data = N_BLOCK_SIZE
             THEN [lk |-> [l EXCEPT
                             !.at = "flush", !.ret = "chunks",
                             !.buf = Skip(buf, to_copy_into_buffered_data)],
                   w |-> v]
             ELSE [lk |-> Returned([l EXCEPT !.buf = <<>>]), w |-> v]
    ELSE [lk |-> [l EXCEPT !.at = "chunks", !.buf = buf], w |-> w]

\* The bytes a write of n bytes hands over: those of the stream position.
LockBytes(n) ==
    StampBytes(N_BLOCK_SIZE * writer.current_block
               + writer.current_pos_in_buffered_data, n)

Idle(objs) == lk.at = "idle" /\ lk.obj \in objs
Counted == ncalls < MaxOps /\ ncalls' = ncalls + 1

\* controller.open_tag()
CallOpenTag ==
    /\ Idle({"none", "tag"})
    /\ lk' = [lk EXCEPT !.at = "open_tag", !.op = "open_tag"]
    /\ UNCHANGED <<mem, writer, reader, hw, out, ncalls>> /\ LkFrame

OpenTagLock ==
    /\ LockAt("open_tag", "card")
    /\ UNCHANGED <<mem, writer, reader, out, ncalls>> /\ LkFrame

\* new_card_present: on Err open_tag returns it (guard dropped).
OpenTagCardPresent(ok) ==
    /\ lk.at = "card"
    /\ hw' = Append(hw, HwOp("new_card_present", 0))
    /\ lk' = IF ok THEN [lk EXCEPT !.at = "serial"]
             ELSE [lk EXCEPT !.at = "idle", !.held = FALSE]
    /\ UNCHANGED <<mem, writer, reader, out, ncalls>> /\ LkFrame

\* read_card_serial: Ok(Some(Tag)) or Err; the guard is dropped.
OpenTagCardSerial(ok) ==
    /\ lk.at = "serial"
    /\ hw' = Append(hw, HwOp("read_card_serial", 0))
    /\ lk' = [lk EXCEPT !.at = "idle", !.held = FALSE,
                        !.obj = IF ok THEN "tag" ELSE @]
    /\ UNCHANGED <<mem, writer, reader, out, ncalls>> /\ LkFrame

\* tag.new_writer()
CallNewWriter ==
    /\ Idle({"tag"})
    /\ writer' = new_writer
    /\ lk' = [lk EXCEPT !.obj = "writer", !.op = "new_writer"]
    /\ UNCHANGED <<mem, reader, hw, out, ncalls>> /\ LkFrame

\* tag.new_reader()
CallNewReader ==
    /\ Idle({"tag"})
    /\ reader' = new_reader
    /\ lk' = [lk EXCEPT !.obj = "reader", !.op = "new_reader"]
    /\ UNCHANGED <<mem, writer, hw, out, ncalls>> /\ LkFrame

\* writer.write(buf) with buf.len() = n
CallWrite(n) ==
    /\ Idle({"writer"}) /\ Counted
    /\ LET s == writeTop([lk EXCEPT !.op = "write", !.ret = "none"],
                         writer, LockBytes(n))
       IN  lk' = s.lk /\ writer' = s.w
    /\ UNCHANGED <<mem, reader, hw, out>> /\ LkFrame

\* writer.flush()
CallFlush ==
    /\ Idle({"writer"}) /\ Counted
    /\ lk' = [lk EXCEPT !.at = "flush", !.op = "flush", !.ret = "done"]
    /\ UNCHANGED <<mem, writer, reader, hw, out>> /\ LkFrame

\* writer.write_string(s): the calls of write that write_str makes through
\* write_all, then flush.
CallWriteString(s) ==
    /\ Idle({"writer"}) /\ Counted
    /\ lk' = [lk EXCEPT
                !.at = "next", !.op = "write_string", !.ret = "none",
                !.calls = [i \in 1..Len(StrHeader(Len(s))) |->
                              [op |-> "write", buf |-> StrHeader(Len(s))[i]]]
                          \o (IF s = <<>> THEN <<>>
                              ELSE <<[op |-> "write", buf |-> s]>>)
                          \o <<[op |-> "flush", buf |-> <<>>]>>]
    /\ UNCHANGED <<mem, writer, reader, hw, out>> /\ LkFrame

\* write_string goes on with its next call.
NextCall ==
    /\ lk.at = "next"
    /\ LET c == Head(lk.calls)
           l == [lk EXCEPT !.calls = Tail(@)]
       IN  IF c.op = "write"
           THEN LET s == writeTop(l, writer, c.buf)
                IN  lk' = s.lk /\ writer' = s.w
           ELSE /\ lk' = [l EXCEPT !.at = "flush", !.ret = "done"]
                /\ UNCHANGED writer
    /\ UNCHANGED <<mem, reader, hw, out, ncalls>> /\ LkFrame

\* write, lines 167-171 and 194-196: the next element of chunks(16); a
\* partial block, always the last one, is staged.
ChunkNext ==
    /\ lk.at = "chunks"
    /\ IF lk.buf = <<>>
       THEN lk' = Returned(lk) /\ UNCHANGED writer
       ELSE IF Len(lk.buf) >= N_BLOCK_SIZE
       THEN lk' = [lk EXCEPT !.at = "chunk_lock"] /\ UNCHANGED writer
       ELSE /\ writer' = [writer EXCEPT
                            !.buffered_data = lk.buf \o Skip(@, Len(lk.buf)),
                            !.current_pos_in_buffered_data =
                                (@ + Len(lk.buf)) % 256]
            /\ lk' = Returned([lk EXCEPT !.buf = <<>>])
    /\ UNCHANGED <<mem, reader, hw, out, ncalls>> /\ LkFrame

\* write, line 173
ChunkLock ==
    /\ LockAt("chunk_lock", "chunk_auth")
    /\ UNCHANGED <<mem, writer, reader, out, ncalls>> /\ LkFrame

\* write, lines 175-182: DATA_BLOCKS[current_block], authenticate, expect.
ChunkAuthenticate(ok) ==
    /\ lk.at = "chunk_auth"
    /\ IF ~InTable(writer.current_block)
       THEN lk' = PanicLocked(lk) /\ UNCHANGED hw
       ELSE /\ hw' = Append(hw, HwOp("auth", BlockAddr(writer.current_block)))
            /\ lk' = IF ok THEN [lk EXCEPT !.at = "chunk_write"]
                     ELSE PanicLocked(lk)
    /\ UNCHANGED <<mem, writer, reader, out, ncalls>> /\ LkFrame

\* write, lines 184-191: mifare_write, expect, current_block += 1; the
\* guard is dropped at the end of the block.
ChunkMifareWrite(ok) ==
    /\ lk.at = "chunk_write"
    /\ hw' = Append(hw, HwOp("write", BlockAddr(writer.current_block)))
    /\ IF ok
       THEN /\ mem' = [mem EXCEPT ![BlockAddr(writer.current_block)] =
                                     Take(lk.buf, N_BLOCK_SIZE)]
            /\ writer' = [writer EXCEPT !.current_block = @ + 1]
            /\ lk' = [lk EXCEPT !.at = "chunks", !.held = FALSE,
                                !.buf = Skip(@, N_BLOCK_SIZE)]
       ELSE lk' = PanicLocked(lk) /\ UNCHANGED <<mem, writer>>
    /\ UNCHANGED <<reader, out, ncalls>> /\ LkFrame

\* flush returns: into write, which goes on with its chunks, or to the
\* caller of flush.
AfterFlush(l) ==
    IF l.ret = "chunks" THEN [l EXCEPT !.at = "chunks", !.held = FALSE]
    ELSE Returned([l EXCEPT !.held = FALSE])

\* flush, line 207
FlushLock ==
    /\ LockAt("flush", "flush_locked")
    /\ UNCHANGED <<mem, writer, reader, out, ncalls>> /\ LkFrame

\* flush, line 213: nothing staged.
FlushNothing ==
    /\ lk.at = "flush_locked" /\ writer.current_pos_in_buffered_data = 0
    /\ lk' = AfterFlush(lk)
    /\ UNCHANGED <<mem, writer, reader, hw, out, ncalls>> /\ LkFrame

\* A flush that commits without authenticating.
FlushUnauthenticated(ok) ==
    /\ lk.at = "flush_locked" /\ writer.current_pos_in_buffered_data > 0
    /\ IF ~InTable(writer.current_block)
       THEN lk' = PanicLocked(lk)
       ELSE lk' = [lk EXCEPT !.at = "flush_write"]
    /\ UNCHANGED <<mem, writer, reader, hw, out, ncalls>> /\ LkFrame

\* flush, lines 213-221
FlushAuthenticate(ok) ==
    /\ lk.at = "flush_locked" /\ writer.current_pos_in_buffered_data > 0
    /\ IF ~InTable(writer.current_block)
       THEN lk' = PanicLocked(lk) /\ UNCHANGED hw
       ELSE /\ hw' = Append(hw, HwOp("auth", BlockAddr(writer.current_block)))
            /\ lk' = IF ok THEN [lk EXCEPT !.at = "flush_write"]
                     ELSE PanicLocked(lk)
    /\ UNCHANGED <<mem, writer, reader, out, ncalls>> /\ LkFrame

\* flush, lines 223-239
FlushMifareWrite(ok) ==
    /\ lk.at = "flush_write"
    /\ hw' = Append(hw, HwOp("write", BlockAddr(writer.current_block)))
    /\ IF ok
       THEN /\ mem' = [mem EXCEPT ![BlockAddr(writer.current_block)] =
                                     Padded(writer)]
            /\ writer' = [writer EXCEPT
                            !.current_pos_in_buffered_data = 0,
                            !.current_block = @ + 1,
                            !.buffered_data = Zeros(N_BLOCK_SIZE)]
            /\ lk' = AfterFlush(lk)
       ELSE lk' = PanicLocked(lk) /\ UNCHANGED <<mem, writer>>
    /\ UNCHANGED <<reader, out, ncalls>> /\ LkFrame

\* reader.read(buf) with buf.len() = len
CallRead(len) ==
    /\ Idle({"reader"}) /\ Counted
    /\ lk' = [lk EXCEPT !.at = "read", !.op = "read", !.phase = "none",
                        !.want = len, !.acc = <<>>]
    /\ UNCHANGED <<mem, writer, reader, hw, out>> /\ LkFrame

\* reader.read_string(): read_str starts with read_exact of the marker.
CallReadString ==
    /\ Idle({"reader"}) /\ Counted
    /\ lk' = [lk EXCEPT !.at = "read", !.op = "read_string",
                        !.phase = "marker", !.want = 1, !.acc = <<>>]
    /\ UNCHANGED <<mem, writer, reader, hw, out>> /\ LkFrame

\* read_str has the length n of the string: read_exact of the payload,
\* from_utf8, Ok(string).
Payload(l, n) ==
    IF n = 0 THEN [lk |-> Returned([l EXCEPT !.acc = <<>>]), out |-> <<>>]
    ELSE [lk |-> [l EXCEPT !.at = "read", !.phase = "data", !.want = n,
                           !.acc = <<>>],
          out |-> <<>>]

\* A read_exact of read_str has its bytes.
PhaseDone(l, bytes) ==
    CASE l.phase = "marker" ->
            IF bytes[1] >= 160 /\ bytes[1] <= 191
            THEN Payload(l, bytes[1] - 160)
            ELSE IF StrLenWidth(bytes[1]) = 0
            THEN [lk |-> PanicUnlocked(l), out |-> <<>>]
            ELSE [lk |-> [l EXCEPT !.at = "read", !.phase = "len",
                                   !.want = StrLenWidth(bytes[1]),
                                   !.acc = <<>>],
                  out |-> <<>>]
      [] l.phase = "len" ->
            IF ScratchSize < BE(bytes)
            THEN [lk |-> PanicUnlocked(l), out |-> <<>>]
            ELSE Payload(l, BE(bytes))
      [] OTHER ->
            IF from_utf8(bytes)
            THEN [lk |-> Returned([l EXCEPT !.acc = <<>>]), out |-> bytes]
            ELSE [lk |-> PanicUnlocked(l), out |-> <<>>]

\* read returns data (guard dropped): to the thread, or into a read_exact
\* of read_string, which fails on 0 bytes and else reads on until it has
\* its bytes.
ReadReturned(l_, data) ==
    LET l == [l_ EXCEPT !.held = FALSE] IN
    IF l.phase = "none" THEN [lk |-> Returned(l), out |-> data]
    ELSE IF data = <<>> THEN [lk |-> PanicUnlocked(l), out |-> <<>>]
    ELSE IF l.want > Len(data)
    THEN [lk |-> [l EXCEPT !.at = "read", !.want = @ - Len(data),
                           !.acc = @ \o data],
          out |-> data]
    ELSE PhaseDone(l, l.acc \o data)

\* read, line 263
ReadLock ==
    /\ LockAt("read", "read_locked")
    /\ UNCHANGED <<mem, writer, reader, out, ncalls>> /\ LkFrame

\* read, lines 268-270
ReadAtEnd ==
    /\ lk.at = "read_locked" /\ reader.current_block = N_BLOCKS
    /\ LET r == ReadReturned(lk, <<>>) IN lk' = r.lk /\ out' = r.out
    /\ UNCHANGED <<mem, writer, reader, hw, ncalls>> /\ LkFrame

\* read, lines 273-280
ReadAuthenticate(ok) ==
    /\ lk.at = "read_locked" /\ reader.current_block # N_BLOCKS
    /\ hw' = Append(hw, HwOp("auth", BlockAddr(reader.current_block)))
    /\ lk' = IF ok THEN [lk EXCEPT !.at = "read_fetch"] ELSE PanicLocked(lk)
    /\ UNCHANGED <<mem, writer, reader, out, ncalls>> /\ LkFrame

\* read, lines 285-315
ReadMifareRead(ok) ==
    /\ lk.at = "read_fetch"
    /\ hw' = Append(hw, HwOp("read", BlockAddr(reader.current_block)))
    /\ IF ok
       THEN LET pos == reader.current_pos_in_block
                bytes_to_copy == Min(lk.want, N_BLOCK_SIZE - pos)
                newpos == (pos + bytes_to_copy) % N_BLOCK_SIZE
                r == ReadReturned(lk,
                         SubSeq(mem[BlockAddr(reader.current_block)],
                                pos + 1, pos + bytes_to_copy))
            IN  /\ reader' = [current_block |->
                                 IF newpos = 0 THEN reader.current_block + 1
                                 ELSE reader.current_block,
                              current_pos_in_block |-> newpos]
                /\ lk' = r.lk /\ out' = r.out
       ELSE lk' = PanicLocked(lk) /\ UNCHANGED <<reader, out>>
    /\ UNCHANGED <<mem, writer, ncalls>> /\ LkFrame

\* The writer or reader goes out of scope.
CallDrop ==
    /\ Idle({"writer", "reader"})
    /\ lk' = [lk EXCEPT !.at = "drop", !.op = "drop"]
    /\ UNCHANGED <<mem, writer, reader, hw, out, ncalls>> /\ LkFrame

\* drop, lines 23 and 31: lock().unwrap() panics on a poisoned Mutex.
DropLock ==
    /\ lk.at = "drop"
    /\ IF lk.poisoned
       THEN lk' = PanicInDrop(lk) /\ UNCHANGED hw
       ELSE /\ ~lk.held
            /\ lk' = [lk EXCEPT !.held = TRUE, !.at = "drop_halt"]
            /\ hw' = <<>>
    /\ UNCHANGED <<mem, writer, reader, out, ncalls>> /\ LkFrame

\* drop, lines 24 and 32
DropHaltA(ok) ==
    /\ lk.at = "drop_halt"
    /\ hw' = Append(hw, HwOp("halt_a", 0))
    /\ lk' = IF ok THEN [lk EXCEPT !.at = "drop_stop"] ELSE PanicInDrop(lk)
    /\ UNCHANGED <<mem, writer, reader, out, ncalls>> /\ LkFrame

\* drop, lines 25 and 33; the guard is dropped, the tag is still there.
DropStopCrypto1(ok) ==
    /\ lk.at = "drop_stop"
    /\ hw' = Append(hw, HwOp("stop_crypto1", 0))
    /\ lk' = IF ok
             THEN [lk EXCEPT !.held = FALSE, !.obj = "tag",
                             !.at = IF lk.unwinding THEN "panicked"
                                    ELSE "idle"]
             ELSE PanicInDrop(lk)
    /\ UNCHANGED <<mem, writer, reader, out, ncalls>> /\ LkFrame

NextLocks ==
    \/ CallOpenTag
    \/ OpenTagLock
    \/ \E ok \in BOOLEAN : OpenTagCardPresent(ok)
    \/ \E ok \in BOOLEAN : OpenTagCardSerial(ok)
    \/ CallNewWriter
    \/ CallNewReader
    \/ \E n \in LockLens : CallWrite(n)
    \/ CallFlush
    \/ \E s \in LockStrings : CallWriteString(s)
    \/ NextCall
    \/ ChunkNext
    \/ ChunkLock
    \/ \E ok \in BOOLEAN : ChunkAuthenticate(ok)
    \/ \E ok \in BOOLEAN : ChunkMifareWrite(ok)
    \/ FlushLock
    \/ FlushNothing
    \/ \E ok \in BOOLEAN : FlushAuthenticate(ok)
    \/ \E ok \in BOOLEAN : FlushMifareWrite(ok)
    \/ \E len \in LockLens : CallRead(len)
    \/ CallReadString
    \/ ReadLock
    \/ ReadAtEnd
    \/ \E ok \in BOOLEAN : ReadAuthenticate(ok)
    \/ \E ok \in BOOLEAN : ReadMifareRead(ok)
    \/ CallDrop
    \/ DropLock
    \/ \E ok \in BOOLEAN : DropHaltA(ok)
    \/ \E ok \in BOOLEAN : DropStopCrypto1(ok)

SpecLocks == InitLocks /\ [][NextLocks]_vars

\* C24: every mifare_read and every mifare_write is issued while the guard
\* is held and directly after an authenticate for the same block address
\* issued in the same lock hold (hw starts empty at every lock).
AuthenticatedTransfers ==
    /\ [](\A i \in 1..Len(hw) :
            hw[i].op \in {"read", "write"}
            => i > 1 /\ hw[i - 1] = HwOp("auth", hw[i].addr))
    /\ [][ (hw' # hw /\ hw' # <<>>)
           => lk.held /\ hw' = Append(hw, hw'[Len(hw')]) ]_vars

\* A write that completed the staged block, flushed it and has now
\* committed the next block from its input.
AuthenticatedTransfersWitness ==
    /\ lk.op = "write" /\ lk.ret = "chunks" /\ lk.at = "chunks" /\ ~lk.held
    /\ hw = <<HwOp("auth", BlockAddr(2)), HwOp("write", BlockAddr(2))>>
    /\ writer.current_block = 3

\* C25: every address that a read, a write or a flush authenticates,
\* fetches or commits is the entry of the block address table at the block
\* index of the reader or writer: an entry of the table, never a sector
\* trailer (an address that is 3 modulo 4).
TableOrder ==
    [][ (hw' # hw /\ hw' # <<>>
         /\ hw'[Len(hw')].op \in {"auth", "read", "write"})
        => LET a == hw'[Len(hw')].addr
               k == IF lk.obj = "writer" THEN writer.current_block
                    ELSE reader.current_block
           IN  /\ k < N_BLOCKS
               /\ a = DATA_BLOCKS[k + 1]
               /\ a % 4 # 3
               /\ a \in {8, 9, 10, 12, 13, 14, 16, 17, 18}
      ]_vars

\* read_string has fetched the last block of a tag whose header declares
\* more bytes than the tag has.
TableOrderWitness ==
    /\ lk.op = "read_string" /\ lk.obj = "reader"
    /\ hw = <<HwOp("auth", 18), HwOp("read", 18)>>
    /\ reader.current_block = N_BLOCKS

\* The places where the thread is about to call lock().
LockPoints == {"open_tag", "chunk_lock", "flush", "read", "drop"}

\* C30: no operation of the controller, the writer or the reader, the
\* flush inside write and the drop of writer and reader included, calls
\* lock() while a guard of the same thread is alive.
NoSelfDeadlock == lk.at \in LockPoints => ~lk.held

\* A write whose top-up completed the staged block is back from flush and
\* about to lock for the next block of its input.
NoSelfDeadlockWitness ==
    /\ lk.op = "write" /\ lk.ret = "chunks" /\ lk.at = "chunk_lock"
    /\ ~lk.held /\ writer.current_block = 2 /\ Len(hw) = 2

----------------------------------------------------------------------------
(* SpecStdin: UserRequestsTransmitter::run with the stdin backend: the     *)
(* first request, if any, then one step per line of standard input.        *)
(* stdin.sent holds the items the backend itself sent, tx everything sent  *)
(* on the channel.                                                         *)

MaxLines == 5

\* The lines stdin delivers: the empty line, the requests of tags A and B
\* as JSON, a line that is no JSON, and a line that fails to read.
StdinLines ==
    {[ok |-> TRUE, text |-> t] :
        t \in {<<>>, to_string(ReqA), to_string(ReqB), Str(5, "ascii")}}
    \cup {NoLine}

InitStdin == TagIdle /\ WatcherIdle

StdinFrame ==
    UNCHANGED <<mem, good, writer, reader, hw, call, res, out, ncalls, fed,
                commits, str, last_uid, poll, npolls, scen, streak, rcvd,
                cons, pc, mutex, bus, todo, lk, meta, blinker>>

\* A transmitter that sends the value of every line.
stdin_lineLevel(s, line) ==
    IF ~line.ok THEN s
    ELSE IF line.text # <<>> /\ ~from_str(line.text).ok
    THEN [s EXCEPT !.wst = "panicked"]
    ELSE LET req == IF line.text = <<>> THEN Absence
                    ELSE Presence(from_str(line.text).req)
         IN  [s EXCEPT !.sent = Append(@, req), !.last = req]

\* The body of the for loop of run (lines 105-115) on a world
\* [last, sent, wst]: from_str(..).unwrap() panics on a line that is no
\* request.
stdin_line(s, line) ==
    IF ~line.ok THEN s
    ELSE IF line.text # <<>> /\ ~from_str(line.text).ok
    THEN [s EXCEPT !.wst = "panicked"]
    ELSE LET req == IF line.text = <<>> THEN Absence
                    ELSE Presence(from_str(line.text).req)
         IN  [s EXCEPT !.sent = IF s.last # req THEN Append(@, req) ELSE @,
                       !.last = req]

\* UserRequestsTransmitter::run, lines 70-79: FIRST_REQUEST goes out before
\* the backend starts.
StdinFirstRequest ==
    /\ wst = "running" /\ stdin.nlines = 0 /\ tx = <<>>
    /\ tx' = Append(tx, Presence(first_req))
    /\ queue' = Append(queue, Presence(first_req))
    /\ UNCHANGED <<wst, stdin>> /\ StdinFrame

\* One iteration of for line in stdin.lock().lines()
Line(line) ==
    /\ wst = "running" /\ stdin.nlines < MaxLines
    /\ LET s == stdin_line([last |-> stdin.last, sent |-> <<>>,
                            wst |-> wst], line)
       IN  /\ stdin' = [last |-> s.last, nlines |-> stdin.nlines + 1,
                        line |-> line, sent |-> stdin.sent \o s.sent]
           /\ tx' = tx \o s.sent /\ queue' = queue \o s.sent
           /\ wst' = s.wst
    /\ StdinFrame

\* End of input: panic!() at line 118.
Eof ==
    /\ wst = "running"
    /\ wst' = "panicked"
    /\ UNCHANGED <<tx, queue, stdin>> /\ StdinFrame

NextStdin ==
    \/ StdinFirstRequest
    \/ \E line \in StdinLines : Line(line)
    \/ Eof

SpecStdin == InitStdin /\ [][NextStdin]_vars

\* The value of a line that was read and holds the empty string or a
\* request.
ValueOf(line) ==
    IF line.text = <<>> THEN Absence
    ELSE IF line.text = to_string(ReqA) THEN Presence(ReqA)
    ELSE Presence(ReqB)

\* C31: the stdin transmitter sends the value of a line exactly when it
\* differs from the value of the previous line (no request before the first
\* line), so no two consecutive items it sent are equal and the first item
\* is no absence.
StdinEdgeTriggered ==
    /\ [](/\ \A i \in 1..(Len(stdin.sent) - 1) :
                stdin.sent[i] # stdin.sent[i + 1]
          /\ stdin.sent # <<>> => stdin.sent[1] # Absence)
    /\ [][ (stdin'.nlines = stdin.nlines + 1 /\ stdin'.line.ok
            /\ stdin'.line.text # Str(5, "ascii"))
           => LET v == ValueOf(stdin'.line) IN
              /\ stdin'.sent = IF v # stdin.last THEN Append(stdin.sent, v)
                               ELSE stdin.sent
              /\ stdin'.last = v /\ wst' = "running"
         ]_vars

\* The lines request A, request A, empty, empty, request A: three items.
StdinEdgeTriggeredWitness ==
    /\ stdin.nlines = 5 /\ stdin.line.text = to_string(ReqA)
    /\ stdin.sent = <<Presence(ReqA), Absence, Presence(ReqA)>>
    /\ tx = stdin.sent

----------------------------------------------------------------------------
(* SpecMeta: the loop of MetaApp::run taking commands from the control     *)
(* channel, and the MetaAppHandle calls that put them there.  A jukebox    *)
(* task is "running" until abort() is called on its AbortHandle.           *)

MaxCmds == 4

\* tokio::sync::mpsc::channel(1)
ControlBuffer == 1

AppModes == {"Starting", "Jukebox", "Admin"}
SetModeCmd(mode) == [kind |-> "SetMode", mode |-> mode]
RequestCurrentModeCmd == [kind |-> "RequestCurrentMode", mode |-> "none"]

InitMeta == TagIdle /\ WatcherIdle

MetaFrame ==
    UNCHANGED <<mem, good, writer, reader, hw, call, res, out, ncalls, fed,
                commits, str, last_uid, tx, wst, poll, npolls, scen, streak,
                chanVars, pc, mutex, bus, todo, lk, stdin, blinker>>

\* try_send on the control channel: Err(Full) when the buffer is taken.
try_send(m, cmd) ==
    IF Len(m.control) < ControlBuffer
    THEN [m EXCEPT !.control = Append(@, cmd)]
    ELSE m

\* MetaAppHandle::set_mode: the result of try_send is dropped.
set_mode(mode) ==
    /\ meta.ncmds < MaxCmds
    /\ meta' = try_send(meta, SetModeCmd(mode))
    /\ MetaFrame

\* MetaAppHandle::current_mode: try_send(..).unwrap(), then the answer is
\* awaited; on a full channel the unwrap panics and the request fails.
current_mode ==
    /\ meta.ncmds < MaxCmds
    /\ meta' = try_send(meta, RequestCurrentModeCmd)
    /\ MetaFrame

\* abortable.map(|x| x.abort())
AbortTask(tasks, h) == IF h = 0 THEN tasks ELSE [tasks EXCEPT ![h] = "aborted"]

\* A SetMode that starts the new mode without shutting the old one down.
SetModeKeepsTask(m, mode) ==
    IF mode = "Jukebox"
    THEN [m EXCEPT !.tasks = Append(@, "running"),
                   !.abortable = Len(m.tasks) + 1,
                   !.current_mode = mode, !.log = Append(@, mode)]
    ELSE [m EXCEPT !.abortable = 0,
                   !.current_mode = mode, !.log = Append(@, mode)]

\* The SetMode arm, lines 326-348: abort the task of the old mode, start
\* the new mode (a task only for Jukebox), remember mode and handle.
SetMode(m, mode) ==
    LET aborted == AbortTask(m.tasks, m.abortable) IN
    IF mode = "Jukebox"
    THEN [m EXCEPT !.tasks = Append(aborted, "running"),
                   !.abortable = Len(m.tasks) + 1,
                   !.current_mode = mode, !.log = Append(@, mode)]
    ELSE [m EXCEPT !.tasks = aborted, !.abortable = 0,
                   !.current_mode = mode, !.log = Append(@, mode)]

\* The RequestCurrentMode arm, lines 321-323
RequestCurrentMode(m) == [m EXCEPT !.reply = m.current_mode]

\* One iteration of the loop of run: control_rx.recv(), the match.
MetaRun ==
    /\ meta.control # <<>> /\ meta.ncmds < MaxCmds
    /\ LET cmd == Head(meta.control)
           m == [meta EXCEPT !.control = Tail(@), !.cmd = cmd,
                             !.ncmds = @ + 1]
       IN  meta' = IF cmd.kind = "SetMode" THEN SetMode(m, cmd.mode)
                   ELSE RequestCurrentMode(m)
    /\ MetaFrame

NextMeta ==
    \/ \E mode \in AppModes : set_mode(mode)
    \/ current_mode
    \/ MetaRun

SpecMeta == InitMeta /\ [][NextMeta]_vars

\* The jukebox tasks on whose handle abort() was not called.
LiveTasks(m) == {i \in 1..Len(m.tasks) : m.tasks[i] = "running"}

\* C32: at most one jukebox task is un-aborted, and then it is the task of
\* the most recent SetMode, which was a SetMode(Jukebox); every SetMode
\* aborts the task of the mode before; RequestCurrentMode is answered with
\* the mode of the most recent SetMode, Starting if there was none.
ModeSwitching ==
    /\ [](/\ Cardinality(LiveTasks(meta)) <= 1
          /\ LiveTasks(meta) # {}
             => /\ meta.log # <<>> /\ meta.log[Len(meta.log)] = "Jukebox"
                /\ LiveTasks(meta) = {Len(meta.tasks)})
    /\ [][ /\ meta'.log # meta.log
              => \A i \in 1..Len(meta.tasks) : meta'.tasks[i] = "aborted"
           /\ (meta'.ncmds = meta.ncmds + 1
               /\ meta'.cmd.kind = "RequestCurrentMode")
              => meta'.reply = IF meta.log = <<>> THEN "Starting"
                               ELSE meta.log[Len(meta.log)]
         ]_vars

\* SetMode(Jukebox) twice, then RequestCurrentMode: the first task is
\* aborted, the second is not, the answer is Jukebox.
ModeSwitchingWitness ==
    /\ meta.log = <<"Jukebox", "Jukebox">>
    /\ meta.tasks = <<"aborted", "running">>
    /\ meta.cmd.kind = "RequestCurrentMode" /\ meta.reply = "Jukebox"

\* ---------------------------------------------------------------------------
\* The LED blinker (src/src/main.rs, module led).  Every clone of a Blinker
\* shares one abort_handle cell; run_async aborts the stored task, spawns a new
\* one, yields at delay_for(0) and only then stores the new handle.
\* blinker.tasks[i] is the blinking task with abort handle i, blinker.at[c] the
\* position of clone c inside run_async, blinker.handle[c] the handle it holds
\* in a local between the spawn and the store.
\* ---------------------------------------------------------------------------
MaxTasks == 3

InitBlinker == TagIdle /\ WatcherIdle

BlinkerFrame ==
    UNCHANGED <<mem, good, writer, reader, hw, call, res, out, ncalls, fed,
                commits, str, last_uid, tx, wst, poll, npolls, scen, streak,
                chanVars, pc, mutex, bus, todo, lk, stdin, meta>>

\* AbortHandle::abort(): a task that already ended is left as it ended.
abort(tasks, h) ==
    IF h # 0 /\ tasks[h].state = "running"
    THEN [tasks EXCEPT ![h].state = "aborted"]
    ELSE tasks

\* Blinker::stop
stop(b) ==
    [b EXCEPT !.tasks = abort(b.tasks, b.abort_handle),
              !.abort_handle = 0,
              !.last = "stop"]

Stop == /\ blinker' = stop(blinker)
        /\ BlinkerFrame

\* run_async, lines 616-619: abort the stored task; the cell keeps its handle.
RunAsyncAbort(c) ==
    /\ blinker.at[c] = "idle"
    /\ Len(blinker.tasks) < MaxTasks
    /\ blinker' = [blinker EXCEPT !.tasks = abort(blinker.tasks, blinker.abort_handle),
                                  !.at[c] = "spawn"]
    /\ BlinkerFrame

\* run_async, lines 620-630: spawn the new task and yield at delay_for(0).
\* A Loop command never ends by itself, every other command does.
RunAsyncSpawn(c) ==
    /\ blinker.at[c] = "spawn"
    /\ Len(blinker.tasks) < MaxTasks
    /\ \E loop \in BOOLEAN :
         blinker' = [blinker EXCEPT
                        !.tasks = Append(blinker.tasks, [state |-> "running", loop |-> loop]),
                        !.handle[c] = Len(blinker.tasks) + 1,
                        !.at[c] = "store"]
    /\ BlinkerFrame

\* run_async, line 631: store the new handle; the call returns.
RunAsyncStore(c) ==
    /\ blinker.at[c] = "store"
    /\ blinker' = [blinker EXCEPT !.abort_handle = blinker.handle[c],
                                  !.handle[c] = 0,
                                  !.at[c] = "idle",
                                  !.last = "run_async"]
    /\ BlinkerFrame

\* Blinker::run of a command without Loop comes to its end.
RunEnds(i) ==
    /\ blinker.tasks[i].state = "running" /\ ~blinker.tasks[i].loop
    /\ blinker' = [blinker EXCEPT !.tasks[i].state = "finished"]
    /\ BlinkerFrame

NextBlinker ==
    \/ Stop
    \/ \E c \in Clones : RunAsyncAbort(c)
    \/ \E c \in Clones : RunAsyncSpawn(c)
    \/ \E c \in Clones : RunAsyncStore(c)
    \/ \E i \in 1..Len(blinker.tasks) : RunEnds(i)

SpecBlinker == InitBlinker /\ [][NextBlinker]_vars

Blinking == {i \in 1..Len(blinker.tasks) : blinker.tasks[i].state = "running"}

NoRunAsyncInProgress == \A c \in Clones : blinker.at[c] = "idle"

AtMostOneBlinking == Cardinality(Blinking) <= 1

BlinkingIsStored == NoRunAsyncInProgress => Blinking \subseteq {blinker.abort_handle}

StopLeavesNothingBlinking ==
    (blinker.last = "stop" /\ NoRunAsyncInProgress) => Blinking = {}

\* C33: under any interleaving of run_async and stop calls on clones of one
\* Blinker at most one blinking task is un-aborted, the handle of every
\* un-aborted task is the one stored in the Blinker once no run_async is in
\* progress, and after a stop() with no run_async in progress no task is
\* left blinking.
BlinkerSingleTask ==
    /\ AtMostOneBlinking
    /\ BlinkingIsStored
    /\ StopLeavesNothingBlinking

====
